---- MODULE Spec2Model ----
(***************************************************************************)
(* Model of the HireAI hiring copilot: the response parsers of main.py,    *)
(* the second implementation of the same functions in backend/main.py,     *)
(* and the HTTP handlers of backend/api.py.                                *)
(*                                                                         *)
(* A text is a sequence of one-character strings.  The LLM Gateway is the  *)
(* environment: each of its calls answers with a text, with a content of   *)
(* None, or raises.  SpecMatch, SpecLocation and SpecExperience apply one  *)
(* function of the main module to every Gateway outcome of a bounded set;  *)
(* Spec is the HTTP service, for both modules that `import main` can bind. *)
(***************************************************************************)
EXTENDS Integers, Sequences, FiniteSets, TLC

(***************************************************************************)
(* Bounds of the model.                                                    *)
(***************************************************************************)
MaxFrags == 4        \* fragments in a Gateway response to the match prompt
MaxLocFrags == 3     \* fragments in a Gateway response to the location prompt
MaxExpFrags == 3     \* fragments in a Gateway response to the experience prompt

(***************************************************************************)
(* Python values: int, str and None are kept apart by their shape.         *)
(***************************************************************************)
PyInt(n) == [type |-> "int", int |-> n]
PyStr(s) == [type |-> "str", str |-> s]
PyNone == [type |-> "NoneType"]
PyList(items) == [type |-> "list", items |-> items]

IsInt(v) == v.type = "int"
IsStr(v) == v.type = "str"

(***************************************************************************)
(* Characters.  A text is a sequence of characters.  A character is a      *)
(* one-character string; a character that has no spelling in a string of   *)
(* this module (a control character other than \t, \n, \f and \r, the      *)
(* grave accent, DEL and every character outside ASCII) is the string of   *)
(* its code point, as in "U+000B".  Ascii lists the characters of codes 0  *)
(* to 127 in order.                                                        *)
(***************************************************************************)
Ascii ==
  <<
    "U+0000", "U+0001", "U+0002", "U+0003", "U+0004", "U+0005", "U+0006", "U+0007",
    "U+0008", "\t", "\n", "U+000B", "\f", "\r", "U+000E", "U+000F",
    "U+0010", "U+0011", "U+0012", "U+0013", "U+0014", "U+0015", "U+0016", "U+0017",
    "U+0018", "U+0019", "U+001A", "U+001B", "U+001C", "U+001D", "U+001E", "U+001F",
    " ", "!", "\"", "#", "$", "%", "&", "'",
    "(", ")", "*", "+", ",", "-", ".", "/",
    "0", "1", "2", "3", "4", "5", "6", "7",
    "8", "9", ":", ";", "<", "=", ">", "?",
    "@", "A", "B", "C", "D", "E", "F", "G",
    "H", "I", "J", "K", "L", "M", "N", "O",
    "P", "Q", "R", "S", "T", "U", "V", "W",
    "X", "Y", "Z", "[", "\\", "]", "^", "_",
    "U+0060", "a", "b", "c", "d", "e", "f", "g",
    "h", "i", "j", "k", "l", "m", "n", "o",
    "p", "q", "r", "s", "t", "u", "v", "w",
    "x", "y", "z", "{", "|", "}", "~", "U+007F"
  >>

\* chr(i) and ord(c) on ASCII
Chr(i) == Ascii[i + 1]
Ord(c) == CHOOSE i \in 0..127 : Chr(i) = c
IsAscii(c) == \E i \in 0..127 : Chr(i) = c

\* the characters of a string of this module
Chars(str) == SelectSeq(str, LAMBDA c : TRUE)

HexDigits == Chars("0123456789ABCDEF")
LowerHexDigits == Chars("0123456789abcdef")
IsHex(c) == \E i \in 1..16 : c \in {HexDigits[i], LowerHexDigits[i]}
HexVal(c) ==
  (CHOOSE i \in 1..16 : c \in {HexDigits[i], LowerHexDigits[i]}) - 1
RECURSIVE HexNumber(_)
HexNumber(hs) ==
  IF hs = <<>> THEN 0
  ELSE 16 * HexNumber(SubSeq(hs, 1, Len(hs) - 1)) + HexVal(hs[Len(hs)])
\* n in hex digits, at least width of them
RECURSIVE HexOf(_, _, _)
HexOf(n, width, digits) ==
  IF width <= 0 /\ n = 0 THEN <<>>
  ELSE Append(HexOf(n \div 16, width - 1, digits), digits[(n % 16) + 1])
RECURSIVE Spelled(_)
Spelled(cs) == IF cs = <<>> THEN "" ELSE Head(cs) \o Spelled(Tail(cs))

\* the character of a code point, and the code point of a character
CharOf(n) == IF n < 128 THEN Chr(n) ELSE "U+" \o Spelled(HexOf(n, 4, HexDigits))
CodeOf(c) ==
  IF Len(c) = 1 THEN Ord(c) ELSE HexNumber(Chars(SubSeq(c, 3, Len(c))))
IsSurrogate(c) == Len(c) > 1 /\ CodeOf(c) \in 55296..57343
\* the bytes of a character in UTF-8
Utf8Len(c) ==
  LET n == CodeOf(c)
  IN IF n < 128 THEN 1 ELSE IF n < 2048 THEN 2 ELSE IF n < 65536 THEN 3 ELSE 4

\* the code points above 127 that str.isprintable() refuses, as ranges
NonPrintableRanges ==
  <<<<128, 160>>, <<173, 173>>, <<888, 889>>, <<896, 899>>, <<907, 907>>,
    <<909, 909>>, <<930, 930>>, <<1328, 1328>>, <<1367, 1368>>,
    <<1419, 1420>>, <<1424, 1424>>, <<1480, 1487>>, <<1515, 1518>>,
    <<1525, 1541>>, <<1564, 1564>>, <<1757, 1757>>, <<1806, 1807>>,
    <<1867, 1868>>, <<1970, 1983>>, <<2043, 2044>>, <<2094, 2095>>,
    <<2111, 2111>>, <<2140, 2141>>, <<2143, 2143>>, <<2155, 2159>>,
    <<2191, 2199>>, <<2274, 2274>>, <<2436, 2436>>, <<2445, 2446>>,
    <<2449, 2450>>, <<2473, 2473>>, <<2481, 2481>>, <<2483, 2485>>,
    <<2490, 2491>>, <<2501, 2502>>, <<2505, 2506>>, <<2511, 2518>>,
    <<2520, 2523>>, <<2526, 2526>>, <<2532, 2533>>, <<2559, 2560>>,
    <<2564, 2564>>, <<2571, 2574>>, <<2577, 2578>>, <<2601, 2601>>,
    <<2609, 2609>>, <<2612, 2612>>, <<2615, 2615>>, <<2618, 2619>>,
    <<2621, 2621>>, <<2627, 2630>>, <<2633, 2634>>, <<2638, 2640>>,
    <<2642, 2648>>, <<2653, 2653>>, <<2655, 2661>>, <<2679, 2688>>,
    <<2692, 2692>>, <<2702, 2702>>, <<2706, 2706>>, <<2729, 2729>>,
    <<2737, 2737>>, <<2740, 2740>>, <<2746, 2747>>, <<2758, 2758>>,
    <<2762, 2762>>, <<2766, 2767>>, <<2769, 2783>>, <<2788, 2789>>,
    <<2802, 2808>>, <<2816, 2816>>, <<2820, 2820>>, <<2829, 2830>>,
    <<2833, 2834>>, <<2857, 2857>>, <<2865, 2865>>, <<2868, 2868>>,
    <<2874, 2875>>, <<2885, 2886>>, <<2889, 2890>>, <<2894, 2900>>,
    <<2904, 2907>>, <<2910, 2910>>, <<2916, 2917>>, <<2936, 2945>>,
    <<2948, 2948>>, <<2955, 2957>>, <<2961, 2961>>, <<2966, 2968>>,
    <<2971, 2971>>, <<2973, 2973>>, <<2976, 2978>>, <<2981, 2983>>,
    <<2987, 2989>>, <<3002, 3005>>, <<3011, 3013>>, <<3017, 3017>>,
    <<3022, 3023>>, <<3025, 3030>>, <<3032, 3045>>, <<3067, 3071>>,
    <<3085, 3085>>, <<3089, 3089>>, <<3113, 3113>>, <<3130, 3131>>,
    <<3141, 3141>>, <<3145, 3145>>, <<3150, 3156>>, <<3159, 3159>>,
    <<3163, 3164>>, <<3166, 3167>>, <<3172, 3173>>, <<3184, 3190>>,
    <<3213, 3213>>, <<3217, 3217>>, <<3241, 3241>>, <<3252, 3252>>,
    <<3258, 3259>>, <<3269, 3269>>, <<3273, 3273>>, <<3278, 3284>>,
    <<3287, 3292>>, <<3295, 3295>>, <<3300, 3301>>, <<3312, 3312>>,
    <<3315, 3327>>, <<3341, 3341>>, <<3345, 3345>>, <<3397, 3397>>,
    <<3401, 3401>>, <<3408, 3411>>, <<3428, 3429>>, <<3456, 3456>>,
    <<3460, 3460>>, <<3479, 3481>>, <<3506, 3506>>, <<3516, 3516>>,
    <<3518, 3519>>, <<3527, 3529>>, <<3531, 3534>>, <<3541, 3541>>,
    <<3543, 3543>>, <<3552, 3557>>, <<3568, 3569>>, <<3573, 3584>>,
    <<3643, 3646>>, <<3676, 3712>>, <<3715, 3715>>, <<3717, 3717>>,
    <<3723, 3723>>, <<3748, 3748>>, <<3750, 3750>>, <<3774, 3775>>,
    <<3781, 3781>>, <<3783, 3783>>, <<3790, 3791>>, <<3802, 3803>>,
    <<3808, 3839>>, <<3912, 3912>>, <<3949, 3952>>, <<3992, 3992>>,
    <<4029, 4029>>, <<4045, 4045>>, <<4059, 4095>>, <<4294, 4294>>,
    <<4296, 4300>>, <<4302, 4303>>, <<4681, 4681>>, <<4686, 4687>>,
    <<4695, 4695>>, <<4697, 4697>>, <<4702, 4703>>, <<4745, 4745>>,
    <<4750, 4751>>, <<4785, 4785>>, <<4790, 4791>>, <<4799, 4799>>,
    <<4801, 4801>>, <<4806, 4807>>, <<4823, 4823>>, <<4881, 4881>>,
    <<4886, 4887>>, <<4955, 4956>>, <<4989, 4991>>, <<5018, 5023>>,
    <<5110, 5111>>, <<5118, 5119>>, <<5760, 5760>>, <<5789, 5791>>,
    <<5881, 5887>>, <<5910, 5918>>, <<5943, 5951>>, <<5972, 5983>>,
    <<5997, 5997>>, <<6001, 6001>>, <<6004, 6015>>, <<6110, 6111>>,
    <<6122, 6127>>, <<6138, 6143>>, <<6158, 6158>>, <<6170, 6175>>,
    <<6265, 6271>>, <<6315, 6319>>, <<6390, 6399>>, <<6431, 6431>>,
    <<6444, 6447>>, <<6460, 6463>>, <<6465, 6467>>, <<6510, 6511>>,
    <<6517, 6527>>, <<6572, 6575>>, <<6602, 6607>>, <<6619, 6621>>,
    <<6684, 6685>>, <<6751, 6751>>, <<6781, 6782>>, <<6794, 6799>>,
    <<6810, 6815>>, <<6830, 6831>>, <<6863, 6911>>, <<6989, 6991>>,
    <<7039, 7039>>, <<7156, 7163>>, <<7224, 7226>>, <<7242, 7244>>,
    <<7305, 7311>>, <<7355, 7356>>, <<7368, 7375>>, <<7419, 7423>>,
    <<7958, 7959>>, <<7966, 7967>>, <<8006, 8007>>, <<8014, 8015>>,
    <<8024, 8024>>, <<8026, 8026>>, <<8028, 8028>>, <<8030, 8030>>,
    <<8062, 8063>>, <<8117, 8117>>, <<8133, 8133>>, <<8148, 8149>>,
    <<8156, 8156>>, <<8176, 8177>>, <<8181, 8181>>, <<8191, 8207>>,
    <<8232, 8239>>, <<8287, 8303>>, <<8306, 8307>>, <<8335, 8335>>,
    <<8349, 8351>>, <<8385, 8399>>, <<8433, 8447>>, <<8588, 8591>>,
    <<9255, 9279>>, <<9291, 9311>>, <<11124, 11125>>, <<11158, 11158>>,
    <<11508, 11512>>, <<11558, 11558>>, <<11560, 11564>>, <<11566, 11567>>,
    <<11624, 11630>>, <<11633, 11646>>, <<11671, 11679>>, <<11687, 11687>>,
    <<11695, 11695>>, <<11703, 11703>>, <<11711, 11711>>, <<11719, 11719>>,
    <<11727, 11727>>, <<11735, 11735>>, <<11743, 11743>>, <<11870, 11903>>,
    <<11930, 11930>>, <<12020, 12031>>, <<12246, 12271>>, <<12284, 12288>>,
    <<12352, 12352>>, <<12439, 12440>>, <<12544, 12548>>, <<12592, 12592>>,
    <<12687, 12687>>, <<12772, 12783>>, <<12831, 12831>>, <<42125, 42127>>,
    <<42183, 42191>>, <<42540, 42559>>, <<42744, 42751>>, <<42955, 42959>>,
    <<42962, 42962>>, <<42964, 42964>>, <<42970, 42993>>, <<43053, 43055>>,
    <<43066, 43071>>, <<43128, 43135>>, <<43206, 43213>>, <<43226, 43231>>,
    <<43348, 43358>>, <<43389, 43391>>, <<43470, 43470>>, <<43482, 43485>>,
    <<43519, 43519>>, <<43575, 43583>>, <<43598, 43599>>, <<43610, 43611>>,
    <<43715, 43738>>, <<43767, 43776>>, <<43783, 43784>>, <<43791, 43792>>,
    <<43799, 43807>>, <<43815, 43815>>, <<43823, 43823>>, <<43884, 43887>>,
    <<44014, 44015>>, <<44026, 44031>>, <<55204, 55215>>, <<55239, 55242>>,
    <<55292, 63743>>, <<64110, 64111>>, <<64218, 64255>>, <<64263, 64274>>,
    <<64280, 64284>>, <<64311, 64311>>, <<64317, 64317>>, <<64319, 64319>>,
    <<64322, 64322>>, <<64325, 64325>>, <<64451, 64466>>, <<64912, 64913>>,
    <<64968, 64974>>, <<64976, 65007>>, <<65050, 65055>>, <<65107, 65107>>,
    <<65127, 65127>>, <<65132, 65135>>, <<65141, 65141>>, <<65277, 65280>>,
    <<65471, 65473>>, <<65480, 65481>>, <<65488, 65489>>, <<65496, 65497>>,
    <<65501, 65503>>, <<65511, 65511>>, <<65519, 65531>>, <<65534, 65535>>,
    <<65548, 65548>>, <<65575, 65575>>, <<65595, 65595>>, <<65598, 65598>>,
    <<65614, 65615>>, <<65630, 65663>>, <<65787, 65791>>, <<65795, 65798>>,
    <<65844, 65846>>, <<65935, 65935>>, <<65949, 65951>>, <<65953, 65999>>,
    <<66046, 66175>>, <<66205, 66207>>, <<66257, 66271>>, <<66300, 66303>>,
    <<66340, 66348>>, <<66379, 66383>>, <<66427, 66431>>, <<66462, 66462>>,
    <<66500, 66503>>, <<66518, 66559>>, <<66718, 66719>>, <<66730, 66735>>,
    <<66772, 66775>>, <<66812, 66815>>, <<66856, 66863>>, <<66916, 66926>>,
    <<66939, 66939>>, <<66955, 66955>>, <<66963, 66963>>, <<66966, 66966>>,
    <<66978, 66978>>, <<66994, 66994>>, <<67002, 67002>>, <<67005, 67071>>,
    <<67383, 67391>>, <<67414, 67423>>, <<67432, 67455>>, <<67462, 67462>>,
    <<67505, 67505>>, <<67515, 67583>>, <<67590, 67591>>, <<67593, 67593>>,
    <<67638, 67638>>, <<67641, 67643>>, <<67645, 67646>>, <<67670, 67670>>,
    <<67743, 67750>>, <<67760, 67807>>, <<67827, 67827>>, <<67830, 67834>>,
    <<67868, 67870>>, <<67898, 67902>>, <<67904, 67967>>, <<68024, 68027>>,
    <<68048, 68049>>, <<68100, 68100>>, <<68103, 68107>>, <<68116, 68116>>,
    <<68120, 68120>>, <<68150, 68151>>, <<68155, 68158>>, <<68169, 68175>>,
    <<68185, 68191>>, <<68256, 68287>>, <<68327, 68330>>, <<68343, 68351>>,
    <<68406, 68408>>, <<68438, 68439>>, <<68467, 68471>>, <<68498, 68504>>,
    <<68509, 68520>>, <<68528, 68607>>, <<68681, 68735>>, <<68787, 68799>>,
    <<68851, 68857>>, <<68904, 68911>>, <<68922, 69215>>, <<69247, 69247>>,
    <<69290, 69290>>, <<69294, 69295>>, <<69298, 69375>>, <<69416, 69423>>,
    <<69466, 69487>>, <<69514, 69551>>, <<69580, 69599>>, <<69623, 69631>>,
    <<69710, 69713>>, <<69750, 69758>>, <<69821, 69821>>, <<69827, 69839>>,
    <<69865, 69871>>, <<69882, 69887>>, <<69941, 69941>>, <<69960, 69967>>,
    <<70007, 70015>>, <<70112, 70112>>, <<70133, 70143>>, <<70162, 70162>>,
    <<70207, 70271>>, <<70279, 70279>>, <<70281, 70281>>, <<70286, 70286>>,
    <<70302, 70302>>, <<70314, 70319>>, <<70379, 70383>>, <<70394, 70399>>,
    <<70404, 70404>>, <<70413, 70414>>, <<70417, 70418>>, <<70441, 70441>>,
    <<70449, 70449>>, <<70452, 70452>>, <<70458, 70458>>, <<70469, 70470>>,
    <<70473, 70474>>, <<70478, 70479>>, <<70481, 70486>>, <<70488, 70492>>,
    <<70500, 70501>>, <<70509, 70511>>, <<70517, 70655>>, <<70748, 70748>>,
    <<70754, 70783>>, <<70856, 70863>>, <<70874, 71039>>, <<71094, 71095>>,
    <<71134, 71167>>, <<71237, 71247>>, <<71258, 71263>>, <<71277, 71295>>,
    <<71354, 71359>>, <<71370, 71423>>, <<71451, 71452>>, <<71468, 71471>>,
    <<71495, 71679>>, <<71740, 71839>>, <<71923, 71934>>, <<71943, 71944>>,
    <<71946, 71947>>, <<71956, 71956>>, <<71959, 71959>>, <<71990, 71990>>,
    <<71993, 71994>>, <<72007, 72015>>, <<72026, 72095>>, <<72104, 72105>>,
    <<72152, 72153>>, <<72165, 72191>>, <<72264, 72271>>, <<72355, 72367>>,
    <<72441, 72703>>, <<72713, 72713>>, <<72759, 72759>>, <<72774, 72783>>,
    <<72813, 72815>>, <<72848, 72849>>, <<72872, 72872>>, <<72887, 72959>>,
    <<72967, 72967>>, <<72970, 72970>>, <<73015, 73017>>, <<73019, 73019>>,
    <<73022, 73022>>, <<73032, 73039>>, <<73050, 73055>>, <<73062, 73062>>,
    <<73065, 73065>>, <<73103, 73103>>, <<73106, 73106>>, <<73113, 73119>>,
    <<73130, 73439>>, <<73465, 73647>>, <<73649, 73663>>, <<73714, 73726>>,
    <<74650, 74751>>, <<74863, 74863>>, <<74869, 74879>>, <<75076, 77711>>,
    <<77811, 77823>>, <<78895, 82943>>, <<83527, 92159>>, <<92729, 92735>>,
    <<92767, 92767>>, <<92778, 92781>>, <<92863, 92863>>, <<92874, 92879>>,
    <<92910, 92911>>, <<92918, 92927>>, <<92998, 93007>>, <<93018, 93018>>,
    <<93026, 93026>>, <<93048, 93052>>, <<93072, 93759>>, <<93851, 93951>>,
    <<94027, 94030>>, <<94088, 94094>>, <<94112, 94175>>, <<94181, 94191>>,
    <<94194, 94207>>, <<100344, 100351>>, <<101590, 101631>>,
    <<101641, 110575>>, <<110580, 110580>>, <<110588, 110588>>,
    <<110591, 110591>>, <<110883, 110927>>, <<110931, 110947>>,
    <<110952, 110959>>, <<111356, 113663>>, <<113771, 113775>>,
    <<113789, 113791>>, <<113801, 113807>>, <<113818, 113819>>,
    <<113824, 118527>>, <<118574, 118575>>, <<118599, 118607>>,
    <<118724, 118783>>, <<119030, 119039>>, <<119079, 119080>>,
    <<119155, 119162>>, <<119275, 119295>>, <<119366, 119519>>,
    <<119540, 119551>>, <<119639, 119647>>, <<119673, 119807>>,
    <<119893, 119893>>, <<119965, 119965>>, <<119968, 119969>>,
    <<119971, 119972>>, <<119975, 119976>>, <<119981, 119981>>,
    <<119994, 119994>>, <<119996, 119996>>, <<120004, 120004>>,
    <<120070, 120070>>, <<120075, 120076>>, <<120085, 120085>>,
    <<120093, 120093>>, <<120122, 120122>>, <<120127, 120127>>,
    <<120133, 120133>>, <<120135, 120137>>, <<120145, 120145>>,
    <<120486, 120487>>, <<120780, 120781>>, <<121484, 121498>>,
    <<121504, 121504>>, <<121520, 122623>>, <<122655, 122879>>,
    <<122887, 122887>>, <<122905, 122906>>, <<122914, 122914>>,
    <<122917, 122917>>, <<122923, 123135>>, <<123181, 123183>>,
    <<123198, 123199>>, <<123210, 123213>>, <<123216, 123535>>,
    <<123567, 123583>>, <<123642, 123646>>, <<123648, 124895>>,
    <<124903, 124903>>, <<124908, 124908>>, <<124911, 124911>>,
    <<124927, 124927>>, <<125125, 125126>>, <<125143, 125183>>,
    <<125260, 125263>>, <<125274, 125277>>, <<125280, 126064>>,
    <<126133, 126208>>, <<126270, 126463>>, <<126468, 126468>>,
    <<126496, 126496>>, <<126499, 126499>>, <<126501, 126502>>,
    <<126504, 126504>>, <<126515, 126515>>, <<126520, 126520>>,
    <<126522, 126522>>, <<126524, 126529>>, <<126531, 126534>>,
    <<126536, 126536>>, <<126538, 126538>>, <<126540, 126540>>,
    <<126544, 126544>>, <<126547, 126547>>, <<126549, 126550>>,
    <<126552, 126552>>, <<126554, 126554>>, <<126556, 126556>>,
    <<126558, 126558>>, <<126560, 126560>>, <<126563, 126563>>,
    <<126565, 126566>>, <<126571, 126571>>, <<126579, 126579>>,
    <<126584, 126584>>, <<126589, 126589>>, <<126591, 126591>>,
    <<126602, 126602>>, <<126620, 126624>>, <<126628, 126628>>,
    <<126634, 126634>>, <<126652, 126703>>, <<126706, 126975>>,
    <<127020, 127023>>, <<127124, 127135>>, <<127151, 127152>>,
    <<127168, 127168>>, <<127184, 127184>>, <<127222, 127231>>,
    <<127406, 127461>>, <<127491, 127503>>, <<127548, 127551>>,
    <<127561, 127567>>, <<127570, 127583>>, <<127590, 127743>>,
    <<128728, 128732>>, <<128749, 128751>>, <<128765, 128767>>,
    <<128884, 128895>>, <<128985, 128991>>, <<129004, 129007>>,
    <<129009, 129023>>, <<129036, 129039>>, <<129096, 129103>>,
    <<129114, 129119>>, <<129160, 129167>>, <<129198, 129199>>,
    <<129202, 129279>>, <<129620, 129631>>, <<129646, 129647>>,
    <<129653, 129655>>, <<129661, 129663>>, <<129671, 129679>>,
    <<129709, 129711>>, <<129723, 129727>>, <<129734, 129743>>,
    <<129754, 129759>>, <<129768, 129775>>, <<129783, 129791>>,
    <<129939, 129939>>, <<129995, 130031>>, <<130042, 131071>>,
    <<173792, 173823>>, <<177977, 177983>>, <<178206, 178207>>,
    <<183970, 183983>>, <<191457, 194559>>, <<195102, 196607>>,
    <<201547, 917759>>, <<918000, 1114111>>>>

(***************************************************************************)
(* str methods                                                             *)
(***************************************************************************)
\* the characters str.strip() and int() drop (str.isspace): \t, \n, \v, \f,
\* \r, the separators FS, GS, RS and US, the space, and the white space
\* outside ASCII
Whitespace ==
  {Chr(i) : i \in (9..13) \cup (28..32)}
    \cup {"U+0085", "U+00A0", "U+1680", "U+2000", "U+2001", "U+2002",
          "U+2003", "U+2004", "U+2005", "U+2006", "U+2007", "U+2008",
          "U+2009", "U+200A", "U+2028", "U+2029", "U+202F", "U+205F",
          "U+3000"}
\* the characters at which str.splitlines() breaks: \n, \v, \f, \r, FS, GS,
\* RS, NEL, LS and PS
LineBreaks ==
  {Chr(i) : i \in (10..13) \cup (28..30)} \cup {"U+0085", "U+2028", "U+2029"}
Digits == {"0", "1", "2", "3", "4", "5", "6", "7", "8", "9"}

DigitVal(c) ==
  CASE c = "0" -> 0 [] c = "1" -> 1 [] c = "2" -> 2 [] c = "3" -> 3
    [] c = "4" -> 4 [] c = "5" -> 5 [] c = "6" -> 6 [] c = "7" -> 7
    [] c = "8" -> 8 [] c = "9" -> 9

Min(S) == CHOOSE x \in S : \A y \in S : x <= y
Max(S) == 0 - Min({0 - x : x \in S})

\* the first index from i on whose character is outside chars, Len(s) + 1
\* when there is none
SkipIn(s, i, chars) ==
  IF i > Len(s) THEN Len(s) + 1
  ELSE CHOOSE k \in i..(Len(s) + 1) :
         /\ k = Len(s) + 1 \/ s[k] \notin chars
         /\ \A j \in i..(k - 1) : s[j] \in chars
\* the last index up to i whose character is outside chars, 0 when there is
\* none
SkipBack(s, i, chars) ==
  IF i < 1 THEN 0
  ELSE i - (CHOOSE n \in 0..i :
              /\ n = i \/ s[i - n] \notin chars
              /\ \A j \in (i - n + 1)..i : s[j] \in chars)

\* s without the characters of a set at its two ends
StripChars(s, chars) ==
  SubSeq(s, SkipIn(s, 1, chars), SkipBack(s, Len(s), chars))

\* str.strip()
Strip(s) == StripChars(s, Whitespace)

\* str.startswith(p)
StartsWith(s, p) == Len(s) >= Len(p) /\ SubSeq(s, 1, Len(p)) = p

\* str.find(p, from), 1-based, 0 when p does not occur at or after from
Find(s, p, from) ==
  LET last == Len(s) - Len(p) + 1
      Hit(i) == SubSeq(s, i, i + Len(p) - 1) = p
  IN IF \A i \in from..last : ~Hit(i) THEN 0
     ELSE CHOOSE i \in from..last : Hit(i) /\ \A j \in from..(i - 1) : ~Hit(j)

\* p in s
Contains(s, p) == Find(s, p, 1) # 0

\* str.split(sep) for a non-empty separator
RECURSIVE Split(_, _)
Split(s, sep) ==
  LET i == Find(s, sep, 1) IN
    IF i = 0 THEN <<s>>
    ELSE <<SubSeq(s, 1, i - 1)>> \o Split(SubSeq(s, i + Len(sep), Len(s)), sep)

\* the index of the first line break from i on, Len(s) + 1 when there is none
FirstBreak(s, i) ==
  IF i > Len(s) THEN Len(s) + 1
  ELSE CHOOSE k \in i..(Len(s) + 1) :
         /\ k = Len(s) + 1 \/ s[k] \in LineBreaks
         /\ \A j \in i..(k - 1) : s[j] \notin LineBreaks
\* str.splitlines(): a line ends at a line break ("\r\n" is one break); no
\* empty last line after a final break
RECURSIVE SplitLines(_)
SplitLines(s) ==
  LET Past(i) == IF s[i] = "\r" /\ i < Len(s) /\ s[i + 1] = "\n"
                  THEN i + 2 ELSE i + 1
      Cut(i) ==
        IF i > Len(s) THEN <<s>>
        ELSE <<SubSeq(s, 1, i - 1)>> \o SplitLines(SubSeq(s, Past(i), Len(s)))
  IN IF s = <<>> THEN <<>> ELSE Cut(FirstBreak(s, 1))

\* the concatenation of pieces lo to hi of a sequence of texts
RECURSIVE JoinRange(_, _, _)
JoinRange(pieces, lo, hi) ==
  IF lo > hi THEN <<>>
  ELSE IF lo = hi THEN pieces[lo]
  ELSE JoinRange(pieces, lo, (lo + hi) \div 2)
         \o JoinRange(pieces, (lo + hi) \div 2 + 1, hi)
Join(pieces) == JoinRange(pieces, 1, Len(pieces))
\* str.lower(): the lower-case letter of each character (Unicode 14.0).  A
\* run <<first, last, step, delta>> moves every step-th code point from first
\* to last by delta.
LowerAscii(c) ==
  CASE c = "A" -> "a" [] c = "B" -> "b" [] c = "C" -> "c" [] c = "D" -> "d"
    [] c = "E" -> "e" [] c = "F" -> "f" [] c = "G" -> "g" [] c = "H" -> "h"
    [] c = "I" -> "i" [] c = "J" -> "j" [] c = "K" -> "k" [] c = "L" -> "l"
    [] c = "M" -> "m" [] c = "N" -> "n" [] c = "O" -> "o" [] c = "P" -> "p"
    [] c = "Q" -> "q" [] c = "R" -> "r" [] c = "S" -> "s" [] c = "T" -> "t"
    [] c = "U" -> "u" [] c = "V" -> "v" [] c = "W" -> "w" [] c = "X" -> "x"
    [] c = "Y" -> "y" [] c = "Z" -> "z"
    [] OTHER -> c

LowerRuns ==
  <<<<192, 214, 1, 32>>, <<216, 222, 1, 32>>, <<256, 302, 2, 1>>,
    <<306, 310, 2, 1>>, <<313, 327, 2, 1>>, <<330, 374, 2, 1>>,
    <<376, 376, 1, -121>>, <<377, 381, 2, 1>>, <<385, 385, 1, 210>>,
    <<386, 388, 2, 1>>, <<390, 390, 1, 206>>, <<391, 391, 1, 1>>,
    <<393, 394, 1, 205>>, <<395, 395, 1, 1>>, <<398, 398, 1, 79>>,
    <<399, 399, 1, 202>>, <<400, 400, 1, 203>>, <<401, 401, 1, 1>>,
    <<403, 403, 1, 205>>, <<404, 404, 1, 207>>, <<406, 406, 1, 211>>,
    <<407, 407, 1, 209>>, <<408, 408, 1, 1>>, <<412, 412, 1, 211>>,
    <<413, 413, 1, 213>>, <<415, 415, 1, 214>>, <<416, 420, 2, 1>>,
    <<422, 422, 1, 218>>, <<423, 423, 1, 1>>, <<425, 425, 1, 218>>,
    <<428, 428, 1, 1>>, <<430, 430, 1, 218>>, <<431, 431, 1, 1>>,
    <<433, 434, 1, 217>>, <<435, 437, 2, 1>>, <<439, 439, 1, 219>>,
    <<440, 440, 1, 1>>, <<444, 444, 1, 1>>, <<452, 452, 1, 2>>,
    <<453, 453, 1, 1>>, <<455, 455, 1, 2>>, <<456, 456, 1, 1>>,
    <<458, 458, 1, 2>>, <<459, 475, 2, 1>>, <<478, 494, 2, 1>>,
    <<497, 497, 1, 2>>, <<498, 500, 2, 1>>, <<502, 502, 1, -97>>,
    <<503, 503, 1, -56>>, <<504, 542, 2, 1>>, <<544, 544, 1, -130>>,
    <<546, 562, 2, 1>>, <<570, 570, 1, 10795>>, <<571, 571, 1, 1>>,
    <<573, 573, 1, -163>>, <<574, 574, 1, 10792>>, <<577, 577, 1, 1>>,
    <<579, 579, 1, -195>>, <<580, 580, 1, 69>>, <<581, 581, 1, 71>>,
    <<582, 590, 2, 1>>, <<880, 882, 2, 1>>, <<886, 886, 1, 1>>,
    <<895, 895, 1, 116>>, <<902, 902, 1, 38>>, <<904, 906, 1, 37>>,
    <<908, 908, 1, 64>>, <<910, 911, 1, 63>>, <<913, 929, 1, 32>>,
    <<931, 939, 1, 32>>, <<975, 975, 1, 8>>, <<984, 1006, 2, 1>>,
    <<1012, 1012, 1, -60>>, <<1015, 1015, 1, 1>>, <<1017, 1017, 1, -7>>,
    <<1018, 1018, 1, 1>>, <<1021, 1023, 1, -130>>, <<1024, 1039, 1, 80>>,
    <<1040, 1071, 1, 32>>, <<1120, 1152, 2, 1>>, <<1162, 1214, 2, 1>>,
    <<1216, 1216, 1, 15>>, <<1217, 1229, 2, 1>>, <<1232, 1326, 2, 1>>,
    <<1329, 1366, 1, 48>>, <<4256, 4293, 1, 7264>>, <<4295, 4295, 1, 7264>>,
    <<4301, 4301, 1, 7264>>, <<5024, 5103, 1, 38864>>, <<5104, 5109, 1, 8>>,
    <<7312, 7354, 1, -3008>>, <<7357, 7359, 1, -3008>>, <<7680, 7828, 2, 1>>,
    <<7838, 7838, 1, -7615>>, <<7840, 7934, 2, 1>>, <<7944, 7951, 1, -8>>,
    <<7960, 7965, 1, -8>>, <<7976, 7983, 1, -8>>, <<7992, 7999, 1, -8>>,
    <<8008, 8013, 1, -8>>, <<8025, 8031, 2, -8>>, <<8040, 8047, 1, -8>>,
    <<8072, 8079, 1, -8>>, <<8088, 8095, 1, -8>>, <<8104, 8111, 1, -8>>,
    <<8120, 8121, 1, -8>>, <<8122, 8123, 1, -74>>, <<8124, 8124, 1, -9>>,
    <<8136, 8139, 1, -86>>, <<8140, 8140, 1, -9>>, <<8152, 8153, 1, -8>>,
    <<8154, 8155, 1, -100>>, <<8168, 8169, 1, -8>>, <<8170, 8171, 1, -112>>,
    <<8172, 8172, 1, -7>>, <<8184, 8185, 1, -128>>, <<8186, 8187, 1, -126>>,
    <<8188, 8188, 1, -9>>, <<8486, 8486, 1, -7517>>,
    <<8490, 8490, 1, -8383>>, <<8491, 8491, 1, -8262>>,
    <<8498, 8498, 1, 28>>, <<8544, 8559, 1, 16>>, <<8579, 8579, 1, 1>>,
    <<9398, 9423, 1, 26>>, <<11264, 11311, 1, 48>>, <<11360, 11360, 1, 1>>,
    <<11362, 11362, 1, -10743>>, <<11363, 11363, 1, -3814>>,
    <<11364, 11364, 1, -10727>>, <<11367, 11371, 2, 1>>,
    <<11373, 11373, 1, -10780>>, <<11374, 11374, 1, -10749>>,
    <<11375, 11375, 1, -10783>>, <<11376, 11376, 1, -10782>>,
    <<11378, 11378, 1, 1>>, <<11381, 11381, 1, 1>>,
    <<11390, 11391, 1, -10815>>, <<11392, 11490, 2, 1>>,
    <<11499, 11501, 2, 1>>, <<11506, 11506, 1, 1>>, <<42560, 42604, 2, 1>>,
    <<42624, 42650, 2, 1>>, <<42786, 42798, 2, 1>>, <<42802, 42862, 2, 1>>,
    <<42873, 42875, 2, 1>>, <<42877, 42877, 1, -35332>>,
    <<42878, 42886, 2, 1>>, <<42891, 42891, 1, 1>>,
    <<42893, 42893, 1, -42280>>, <<42896, 42898, 2, 1>>,
    <<42902, 42920, 2, 1>>, <<42922, 42922, 1, -42308>>,
    <<42923, 42923, 1, -42319>>, <<42924, 42924, 1, -42315>>,
    <<42925, 42925, 1, -42305>>, <<42926, 42926, 1, -42308>>,
    <<42928, 42928, 1, -42258>>, <<42929, 42929, 1, -42282>>,
    <<42930, 42930, 1, -42261>>, <<42931, 42931, 1, 928>>,
    <<42932, 42946, 2, 1>>, <<42948, 42948, 1, -48>>,
    <<42949, 42949, 1, -42307>>, <<42950, 42950, 1, -35384>>,
    <<42951, 42953, 2, 1>>, <<42960, 42960, 1, 1>>, <<42966, 42968, 2, 1>>,
    <<42997, 42997, 1, 1>>, <<65313, 65338, 1, 32>>, <<66560, 66599, 1, 40>>,
    <<66736, 66771, 1, 40>>, <<66928, 66964, 2, 39>>,
    <<66929, 66937, 2, 39>>, <<66941, 66953, 2, 39>>,
    <<66957, 66961, 2, 39>>, <<66965, 66965, 1, 39>>,
    <<68736, 68786, 1, 64>>, <<71840, 71871, 1, 32>>,
    <<93760, 93791, 1, 32>>, <<125184, 125217, 1, 34>>>>

\* the characters that count as cased and as case-ignorable where a capital
\* sigma is lowered
CasedRanges ==
  <<<<65, 90>>, <<97, 122>>, <<170, 170>>, <<181, 181>>, <<186, 186>>,
    <<192, 214>>, <<216, 246>>, <<248, 442>>, <<444, 447>>, <<452, 659>>,
    <<661, 687>>, <<880, 883>>, <<886, 887>>, <<891, 893>>, <<895, 895>>,
    <<902, 902>>, <<904, 906>>, <<908, 908>>, <<910, 929>>, <<931, 1013>>,
    <<1015, 1153>>, <<1162, 1327>>, <<1329, 1366>>, <<1376, 1416>>,
    <<4256, 4293>>, <<4295, 4295>>, <<4301, 4301>>, <<4304, 4346>>,
    <<4349, 4351>>, <<5024, 5109>>, <<5112, 5117>>, <<7296, 7304>>,
    <<7312, 7354>>, <<7357, 7359>>, <<7424, 7467>>, <<7531, 7543>>,
    <<7545, 7578>>, <<7680, 7957>>, <<7960, 7965>>, <<7968, 8005>>,
    <<8008, 8013>>, <<8016, 8023>>, <<8025, 8025>>, <<8027, 8027>>,
    <<8029, 8029>>, <<8031, 8061>>, <<8064, 8116>>, <<8118, 8124>>,
    <<8126, 8126>>, <<8130, 8132>>, <<8134, 8140>>, <<8144, 8147>>,
    <<8150, 8155>>, <<8160, 8172>>, <<8178, 8180>>, <<8182, 8188>>,
    <<8450, 8450>>, <<8455, 8455>>, <<8458, 8467>>, <<8469, 8469>>,
    <<8473, 8477>>, <<8484, 8484>>, <<8486, 8486>>, <<8488, 8488>>,
    <<8490, 8493>>, <<8495, 8500>>, <<8505, 8505>>, <<8508, 8511>>,
    <<8517, 8521>>, <<8526, 8526>>, <<8544, 8575>>, <<8579, 8580>>,
    <<9398, 9449>>, <<11264, 11387>>, <<11390, 11492>>, <<11499, 11502>>,
    <<11506, 11507>>, <<11520, 11557>>, <<11559, 11559>>, <<11565, 11565>>,
    <<42560, 42605>>, <<42624, 42651>>, <<42786, 42863>>, <<42865, 42887>>,
    <<42891, 42894>>, <<42896, 42954>>, <<42960, 42961>>, <<42963, 42963>>,
    <<42965, 42969>>, <<42997, 42998>>, <<43002, 43002>>, <<43824, 43866>>,
    <<43872, 43880>>, <<43888, 43967>>, <<64256, 64262>>, <<64275, 64279>>,
    <<65313, 65338>>, <<65345, 65370>>, <<66560, 66639>>, <<66736, 66771>>,
    <<66776, 66811>>, <<66928, 66938>>, <<66940, 66954>>, <<66956, 66962>>,
    <<66964, 66965>>, <<66967, 66977>>, <<66979, 66993>>, <<66995, 67001>>,
    <<67003, 67004>>, <<68736, 68786>>, <<68800, 68850>>, <<71840, 71903>>,
    <<93760, 93823>>, <<119808, 119892>>, <<119894, 119964>>,
    <<119966, 119967>>, <<119970, 119970>>, <<119973, 119974>>,
    <<119977, 119980>>, <<119982, 119993>>, <<119995, 119995>>,
    <<119997, 120003>>, <<120005, 120069>>, <<120071, 120074>>,
    <<120077, 120084>>, <<120086, 120092>>, <<120094, 120121>>,
    <<120123, 120126>>, <<120128, 120132>>, <<120134, 120134>>,
    <<120138, 120144>>, <<120146, 120485>>, <<120488, 120512>>,
    <<120514, 120538>>, <<120540, 120570>>, <<120572, 120596>>,
    <<120598, 120628>>, <<120630, 120654>>, <<120656, 120686>>,
    <<120688, 120712>>, <<120714, 120744>>, <<120746, 120770>>,
    <<120772, 120779>>, <<122624, 122633>>, <<122635, 122654>>,
    <<125184, 125251>>, <<127280, 127305>>, <<127312, 127337>>,
    <<127344, 127369>>>>
CaseIgnorableRanges ==
  <<<<39, 39>>, <<46, 46>>, <<58, 58>>, <<94, 94>>, <<96, 96>>, <<168, 168>>,
    <<173, 173>>, <<175, 175>>, <<180, 180>>, <<183, 184>>, <<688, 879>>,
    <<884, 885>>, <<890, 890>>, <<900, 901>>, <<903, 903>>, <<1155, 1161>>,
    <<1369, 1369>>, <<1375, 1375>>, <<1425, 1469>>, <<1471, 1471>>,
    <<1473, 1474>>, <<1476, 1477>>, <<1479, 1479>>, <<1524, 1524>>,
    <<1536, 1541>>, <<1552, 1562>>, <<1564, 1564>>, <<1600, 1600>>,
    <<1611, 1631>>, <<1648, 1648>>, <<1750, 1757>>, <<1759, 1768>>,
    <<1770, 1773>>, <<1807, 1807>>, <<1809, 1809>>, <<1840, 1866>>,
    <<1958, 1968>>, <<2027, 2037>>, <<2042, 2042>>, <<2045, 2045>>,
    <<2070, 2093>>, <<2137, 2139>>, <<2184, 2184>>, <<2192, 2193>>,
    <<2200, 2207>>, <<2249, 2306>>, <<2362, 2362>>, <<2364, 2364>>,
    <<2369, 2376>>, <<2381, 2381>>, <<2385, 2391>>, <<2402, 2403>>,
    <<2417, 2417>>, <<2433, 2433>>, <<2492, 2492>>, <<2497, 2500>>,
    <<2509, 2509>>, <<2530, 2531>>, <<2558, 2558>>, <<2561, 2562>>,
    <<2620, 2620>>, <<2625, 2626>>, <<2631, 2632>>, <<2635, 2637>>,
    <<2641, 2641>>, <<2672, 2673>>, <<2677, 2677>>, <<2689, 2690>>,
    <<2748, 2748>>, <<2753, 2757>>, <<2759, 2760>>, <<2765, 2765>>,
    <<2786, 2787>>, <<2810, 2815>>, <<2817, 2817>>, <<2876, 2876>>,
    <<2879, 2879>>, <<2881, 2884>>, <<2893, 2893>>, <<2901, 2902>>,
    <<2914, 2915>>, <<2946, 2946>>, <<3008, 3008>>, <<3021, 3021>>,
    <<3072, 3072>>, <<3076, 3076>>, <<3132, 3132>>, <<3134, 3136>>,
    <<3142, 3144>>, <<3146, 3149>>, <<3157, 3158>>, <<3170, 3171>>,
    <<3201, 3201>>, <<3260, 3260>>, <<3263, 3263>>, <<3270, 3270>>,
    <<3276, 3277>>, <<3298, 3299>>, <<3328, 3329>>, <<3387, 3388>>,
    <<3393, 3396>>, <<3405, 3405>>, <<3426, 3427>>, <<3457, 3457>>,
    <<3530, 3530>>, <<3538, 3540>>, <<3542, 3542>>, <<3633, 3633>>,
    <<3636, 3642>>, <<3654, 3662>>, <<3761, 3761>>, <<3764, 3772>>,
    <<3782, 3782>>, <<3784, 3789>>, <<3864, 3865>>, <<3893, 3893>>,
    <<3895, 3895>>, <<3897, 3897>>, <<3953, 3966>>, <<3968, 3972>>,
    <<3974, 3975>>, <<3981, 3991>>, <<3993, 4028>>, <<4038, 4038>>,
    <<4141, 4144>>, <<4146, 4151>>, <<4153, 4154>>, <<4157, 4158>>,
    <<4184, 4185>>, <<4190, 4192>>, <<4209, 4212>>, <<4226, 4226>>,
    <<4229, 4230>>, <<4237, 4237>>, <<4253, 4253>>, <<4348, 4348>>,
    <<4957, 4959>>, <<5906, 5908>>, <<5938, 5939>>, <<5970, 5971>>,
    <<6002, 6003>>, <<6068, 6069>>, <<6071, 6077>>, <<6086, 6086>>,
    <<6089, 6099>>, <<6103, 6103>>, <<6109, 6109>>, <<6155, 6159>>,
    <<6211, 6211>>, <<6277, 6278>>, <<6313, 6313>>, <<6432, 6434>>,
    <<6439, 6440>>, <<6450, 6450>>, <<6457, 6459>>, <<6679, 6680>>,
    <<6683, 6683>>, <<6742, 6742>>, <<6744, 6750>>, <<6752, 6752>>,
    <<6754, 6754>>, <<6757, 6764>>, <<6771, 6780>>, <<6783, 6783>>,
    <<6823, 6823>>, <<6832, 6862>>, <<6912, 6915>>, <<6964, 6964>>,
    <<6966, 6970>>, <<6972, 6972>>, <<6978, 6978>>, <<7019, 7027>>,
    <<7040, 7041>>, <<7074, 7077>>, <<7080, 7081>>, <<7083, 7085>>,
    <<7142, 7142>>, <<7144, 7145>>, <<7149, 7149>>, <<7151, 7153>>,
    <<7212, 7219>>, <<7222, 7223>>, <<7288, 7293>>, <<7376, 7378>>,
    <<7380, 7392>>, <<7394, 7400>>, <<7405, 7405>>, <<7412, 7412>>,
    <<7416, 7417>>, <<7468, 7530>>, <<7544, 7544>>, <<7579, 7679>>,
    <<8125, 8125>>, <<8127, 8129>>, <<8141, 8143>>, <<8157, 8159>>,
    <<8173, 8175>>, <<8189, 8190>>, <<8203, 8207>>, <<8216, 8217>>,
    <<8228, 8228>>, <<8231, 8231>>, <<8234, 8238>>, <<8288, 8292>>,
    <<8294, 8303>>, <<8305, 8305>>, <<8319, 8319>>, <<8336, 8348>>,
    <<8400, 8432>>, <<11388, 11389>>, <<11503, 11505>>, <<11631, 11631>>,
    <<11647, 11647>>, <<11744, 11775>>, <<11823, 11823>>, <<12293, 12293>>,
    <<12330, 12333>>, <<12337, 12341>>, <<12347, 12347>>, <<12441, 12446>>,
    <<12540, 12542>>, <<40981, 40981>>, <<42232, 42237>>, <<42508, 42508>>,
    <<42607, 42610>>, <<42612, 42621>>, <<42623, 42623>>, <<42652, 42655>>,
    <<42736, 42737>>, <<42752, 42785>>, <<42864, 42864>>, <<42888, 42890>>,
    <<42994, 42996>>, <<43000, 43001>>, <<43010, 43010>>, <<43014, 43014>>,
    <<43019, 43019>>, <<43045, 43046>>, <<43052, 43052>>, <<43204, 43205>>,
    <<43232, 43249>>, <<43263, 43263>>, <<43302, 43309>>, <<43335, 43345>>,
    <<43392, 43394>>, <<43443, 43443>>, <<43446, 43449>>, <<43452, 43453>>,
    <<43471, 43471>>, <<43493, 43494>>, <<43561, 43566>>, <<43569, 43570>>,
    <<43573, 43574>>, <<43587, 43587>>, <<43596, 43596>>, <<43632, 43632>>,
    <<43644, 43644>>, <<43696, 43696>>, <<43698, 43700>>, <<43703, 43704>>,
    <<43710, 43711>>, <<43713, 43713>>, <<43741, 43741>>, <<43756, 43757>>,
    <<43763, 43764>>, <<43766, 43766>>, <<43867, 43871>>, <<43881, 43883>>,
    <<44005, 44005>>, <<44008, 44008>>, <<44013, 44013>>, <<64286, 64286>>,
    <<64434, 64450>>, <<65024, 65039>>, <<65043, 65043>>, <<65056, 65071>>,
    <<65106, 65106>>, <<65109, 65109>>, <<65279, 65279>>, <<65287, 65287>>,
    <<65294, 65294>>, <<65306, 65306>>, <<65342, 65342>>, <<65344, 65344>>,
    <<65392, 65392>>, <<65438, 65439>>, <<65507, 65507>>, <<65529, 65531>>,
    <<66045, 66045>>, <<66272, 66272>>, <<66422, 66426>>, <<67456, 67461>>,
    <<67463, 67504>>, <<67506, 67514>>, <<68097, 68099>>, <<68101, 68102>>,
    <<68108, 68111>>, <<68152, 68154>>, <<68159, 68159>>, <<68325, 68326>>,
    <<68900, 68903>>, <<69291, 69292>>, <<69446, 69456>>, <<69506, 69509>>,
    <<69633, 69633>>, <<69688, 69702>>, <<69744, 69744>>, <<69747, 69748>>,
    <<69759, 69761>>, <<69811, 69814>>, <<69817, 69818>>, <<69821, 69821>>,
    <<69826, 69826>>, <<69837, 69837>>, <<69888, 69890>>, <<69927, 69931>>,
    <<69933, 69940>>, <<70003, 70003>>, <<70016, 70017>>, <<70070, 70078>>,
    <<70089, 70092>>, <<70095, 70095>>, <<70191, 70193>>, <<70196, 70196>>,
    <<70198, 70199>>, <<70206, 70206>>, <<70367, 70367>>, <<70371, 70378>>,
    <<70400, 70401>>, <<70459, 70460>>, <<70464, 70464>>, <<70502, 70508>>,
    <<70512, 70516>>, <<70712, 70719>>, <<70722, 70724>>, <<70726, 70726>>,
    <<70750, 70750>>, <<70835, 70840>>, <<70842, 70842>>, <<70847, 70848>>,
    <<70850, 70851>>, <<71090, 71093>>, <<71100, 71101>>, <<71103, 71104>>,
    <<71132, 71133>>, <<71219, 71226>>, <<71229, 71229>>, <<71231, 71232>>,
    <<71339, 71339>>, <<71341, 71341>>, <<71344, 71349>>, <<71351, 71351>>,
    <<71453, 71455>>, <<71458, 71461>>, <<71463, 71467>>, <<71727, 71735>>,
    <<71737, 71738>>, <<71995, 71996>>, <<71998, 71998>>, <<72003, 72003>>,
    <<72148, 72151>>, <<72154, 72155>>, <<72160, 72160>>, <<72193, 72202>>,
    <<72243, 72248>>, <<72251, 72254>>, <<72263, 72263>>, <<72273, 72278>>,
    <<72281, 72283>>, <<72330, 72342>>, <<72344, 72345>>, <<72752, 72758>>,
    <<72760, 72765>>, <<72767, 72767>>, <<72850, 72871>>, <<72874, 72880>>,
    <<72882, 72883>>, <<72885, 72886>>, <<73009, 73014>>, <<73018, 73018>>,
    <<73020, 73021>>, <<73023, 73029>>, <<73031, 73031>>, <<73104, 73105>>,
    <<73109, 73109>>, <<73111, 73111>>, <<73459, 73460>>, <<78896, 78904>>,
    <<92912, 92916>>, <<92976, 92982>>, <<92992, 92995>>, <<94031, 94031>>,
    <<94095, 94111>>, <<94176, 94177>>, <<94179, 94180>>, <<110576, 110579>>,
    <<110581, 110587>>, <<110589, 110590>>, <<113821, 113822>>,
    <<113824, 113827>>, <<118528, 118573>>, <<118576, 118598>>,
    <<119143, 119145>>, <<119155, 119170>>, <<119173, 119179>>,
    <<119210, 119213>>, <<119362, 119364>>, <<121344, 121398>>,
    <<121403, 121452>>, <<121461, 121461>>, <<121476, 121476>>,
    <<121499, 121503>>, <<121505, 121519>>, <<122880, 122886>>,
    <<122888, 122904>>, <<122907, 122913>>, <<122915, 122916>>,
    <<122918, 122922>>, <<123184, 123197>>, <<123566, 123566>>,
    <<123628, 123631>>, <<125136, 125142>>, <<125252, 125259>>,
    <<127995, 127999>>, <<917505, 917505>>, <<917536, 917631>>,
    <<917760, 917999>>>>

InRanges(n, ranges) ==
  \E i \in 1..Len(ranges) : n >= ranges[i][1] /\ n <= ranges[i][2]

LowerChar(c) ==
  LET n == CodeOf(c)
      runs == {i \in 1..Len(LowerRuns) :
                 /\ n >= LowerRuns[i][1] /\ n <= LowerRuns[i][2]
                 /\ (n - LowerRuns[i][1]) % LowerRuns[i][3] = 0}
  IN IF Len(c) = 1 THEN LowerAscii(c)
     ELSE IF runs = {} THEN c
     ELSE CharOf(n + LowerRuns[CHOOSE i \in runs : TRUE][4])

\* a capital sigma is final after a cased character and not before one,
\* the case-ignorable characters between them left aside
FinalSigma(s, i) ==
  LET Skipped(j) == InRanges(CodeOf(s[j]), CaseIgnorableRanges)
      Cased(j) == InRanges(CodeOf(s[j]), CasedRanges)
      before == {j \in 1..(i - 1) : ~Skipped(j)}
      after == {j \in (i + 1)..Len(s) : ~Skipped(j)}
  IN /\ before # {} /\ Cased(Max(before))
     /\ ~(after # {} /\ Cased(Min(after)))

\* a capital I with a dot above becomes two characters
Lower(s) ==
  IF \A i \in 1..Len(s) : s[i] \notin {"U+0130", "U+03A3"}
    THEN [i \in 1..Len(s) |-> LowerChar(s[i])]
    ELSE Join([i \in 1..Len(s) |->
                 CASE s[i] = "U+0130" -> <<"i", "U+0307">>
                   [] s[i] = "U+03A3" ->
                        IF FinalSigma(s, i) THEN <<"U+03C2">>
                        ELSE <<"U+03C3">>
                   [] OTHER -> <<LowerChar(s[i])>>])

(***************************************************************************)
(* Python ints have no width.  A value of at most nine digits is           *)
(* PyInt(n); a longer one keeps its sign and its decimal digits, most      *)
(* significant first, without leading zeros.                               *)
(***************************************************************************)
PyBigInt(neg, digits) == [type |-> "int", neg |-> neg, digits |-> digits]
IsBig(v) == "digits" \in DOMAIN v

\* a sequence of digits without its leading zeros
NoLeadingZeros(ds) ==
  LET nz == {i \in 1..Len(ds) : ds[i] # 0} IN
    IF nz = {} THEN <<0>> ELSE SubSeq(ds, Min(nz), Len(ds))

RECURSIVE NatOfDigits(_)
NatOfDigits(ds) ==
  IF ds = <<>> THEN 0
  ELSE 10 * NatOfDigits(SubSeq(ds, 1, Len(ds) - 1)) + ds[Len(ds)]

RECURSIVE DigitsOfNat(_)
DigitsOfNat(n) == IF n < 10 THEN <<n>> ELSE DigitsOfNat(n \div 10) \o <<n % 10>>
\* the characters of decimal digits
DigitChars(ds) == [i \in 1..Len(ds) |-> Chr(48 + ds[i])]

\* the int with this sign and these decimal digits
MkInt(neg, ds) ==
  LET d == NoLeadingZeros(ds) IN
    IF Len(d) <= 9
      THEN PyInt(IF neg THEN 0 - NatOfDigits(d) ELSE NatOfDigits(d))
      ELSE PyBigInt(neg, d)

\* the decimal digits of the absolute value of an int
Magnitude(v) ==
  IF IsBig(v) THEN v.digits
  ELSE DigitsOfNat(IF v.int < 0 THEN 0 - v.int ELSE v.int)

\* digit i of n digits, counted from the left, of a number written with
\* fewer digits
DigitAt(ds, i, n) == IF i <= n - Len(ds) THEN 0 ELSE ds[i - (n - Len(ds))]

\* a + b on decimal digits: a carry enters position i when a position to its
\* right overflows and every position between the two holds 9
AddDigits(a, b) ==
  LET n == Max({Len(a), Len(b)}) + 1
      sum(i) == DigitAt(a, i, n) + DigitAt(b, i, n)
      carry(i) == IF \E j \in (i + 1)..n :
                       sum(j) >= 10 /\ \A k \in (i + 1)..(j - 1) : sum(k) = 9
                    THEN 1 ELSE 0
  IN [i \in 1..n |-> (sum(i) + carry(i)) % 10]

\* a // 2 on decimal digits
HalveDigits(a) ==
  [i \in 1..Len(a) |->
     ((IF i > 1 THEN (a[i - 1] % 2) * 10 ELSE 0) + a[i]) \div 2]

\* (a + b) // 2 of two ints; the digit form is for ints that are not negative
HalfSum(a, b) ==
  IF ~IsBig(a) /\ ~IsBig(b) THEN PyInt((a.int + b.int) \div 2)
  ELSE MkInt(FALSE, HalveDigits(AddDigits(Magnitude(a), Magnitude(b))))

(***************************************************************************)
(* int(text): surrounding whitespace is dropped, then an optional sign     *)
(* and decimal digits, with single underscores allowed between digits;     *)
(* more than 4300 digits are refused.  err stands for ValueError.          *)
(***************************************************************************)
\* the white space int() drops: that of str.strip() without the separators
\* FS, GS, RS and US
IntWhitespace == Whitespace \ {Chr(i) : i \in 28..31}

\* the values of the ASCII digits of a text, in order
DigitValues(s) ==
  LET ds == SelectSeq(s, LAMBDA c : c \in Digits)
  IN [i \in 1..Len(ds) |-> DigitVal(ds[i])]

\* the code points of the digits zero of the decimal digits outside ASCII
\* (Unicode 14.0); the other nine digits follow each
DecimalZeros ==
  {1632, 1776, 1984, 2406, 2534, 2662, 2790, 2918, 3046, 3174, 3302, 3430,
   3558, 3664, 3792, 3872, 4160, 4240, 6112, 6160, 6470, 6608, 6784, 6800,
   6992, 7088, 7232, 7248, 42528, 43216, 43264, 43472, 43504, 43600,
   44016, 65296, 66720, 68912, 69734, 69872, 69942, 70096, 70384, 70736,
   70864, 71248, 71360, 71472, 71904, 72016, 72784, 73040, 73120, 92768,
   92864, 93008, 120782, 120792, 120802, 120812, 120822, 123200, 123632,
   125264, 130032}

\* a decimal digit of any script, and its value
IsDecimal(c) ==
  c \in Digits
    \/ (Len(c) > 1 /\ \E z \in DecimalZeros : CodeOf(c) \in z..(z + 9))
DecimalVal(c) ==
  IF c \in Digits THEN DigitVal(c)
  ELSE CodeOf(c) - (CHOOSE z \in DecimalZeros : CodeOf(c) \in z..(z + 9))
DecimalValues(s) ==
  LET ds == SelectSeq(s, IsDecimal)
  IN [i \in 1..Len(ds) |-> DecimalVal(ds[i])]

WellFormedDigits(s) ==
  /\ s # <<>>
  /\ \A i \in 1..Len(s) : IsDecimal(s[i]) \/ s[i] = "_"
  /\ IsDecimal(s[1])
  /\ IsDecimal(s[Len(s)])
  /\ \A i \in 1..(Len(s) - 1) : ~(s[i] = "_" /\ s[i + 1] = "_")

ValueError == [err |-> TRUE, val |-> PyInt(0)]

ParseInt(text) ==
  LET t == StripChars(text, IntWhitespace)
      signed == t # <<>> /\ Head(t) \in {"+", "-"}
      body == IF signed THEN Tail(t) ELSE t
      ds == DecimalValues(body)
  IN IF ~WellFormedDigits(body) \/ Len(ds) > 4300 THEN ValueError
     ELSE [err |-> FALSE, val |-> MkInt(signed /\ Head(t) = "-", ds)]

(***************************************************************************)
(* Text constants of main.py                                               *)
(***************************************************************************)
ScorePrefix == <<"S", "c", "o", "r", "e", ":">>
SkillsPrefix == <<"S", "k", "i", "l", "l", "s", ":">>
ExplanationPrefix ==
  <<"E", "x", "p", "l", "a", "n", "a", "t", "i", "o", "n", ":">>
Hyphen == <<"-">>
\* "Unable to extract information"
UnableToExtract ==
  <<"U", "n", "a", "b", "l", "e", " ", "t", "o", " ", "e", "x", "t", "r",
    "a", "c", "t", " ", "i", "n", "f", "o", "r", "m", "a", "t", "i", "o",
    "n">>
\* "Error in LLM processing: "
ErrorInLLM ==
  <<"E", "r", "r", "o", "r", " ", "i", "n", " ", "L", "L", "M", " ", "p",
    "r", "o", "c", "e", "s", "s", "i", "n", "g", ":", " ">>

\* "'NoneType' object has no attribute 'splitlines'"
NoSplitlines ==
  <<"'", "N", "o", "n", "e", "T", "y", "p", "e", "'", " ", "o", "b", "j",
    "e", "c", "t", " ", "h", "a", "s", " ", "n", "o", " ", "a", "t", "t",
    "r", "i", "b", "u", "t", "e", " ", "'", "s", "p", "l", "i", "t", "l",
    "i", "n", "e", "s", "'">>

\* "'NoneType' object has no attribute 'strip'"
NoStrip ==
  <<"'", "N", "o", "n", "e", "T", "y", "p", "e", "'", " ", "o", "b", "j",
    "e", "c", "t", " ", "h", "a", "s", " ", "n", "o", " ", "a", "t", "t",
    "r", "i", "b", "u", "t", "e", " ", "'", "s", "t", "r", "i", "p", "'">>

(***************************************************************************)
(* Outcomes of one call of the LLM Gateway                                 *)
(* (client.chat.completions.create(...).choices[0].message.content):       *)
(* a text, a content of None, or an exception with a message.              *)
(***************************************************************************)
GwText(t) == [kind |-> "text", text |-> t]
GwNone == [kind |-> "none"]
GwRaise(m) == [kind |-> "raise", msg |-> m]

\* messages of the exceptions the Gateway raises
\* "Connection error."
ConnectionError ==
  <<"C", "o", "n", "n", "e", "c", "t", "i", "o", "n", " ", "e", "r", "r",
    "o", "r", ".">>
\* "rate limit"
RateLimit ==
  <<"r", "a", "t", "e", " ", "l", "i", "m", "i", "t">>
\* "bad " and a lone surrogate
BadSurrogate ==
  <<"b", "a", "d", " ", "U+D800">>
\* "bad " and the lone surrogate that stands for the byte 0x80
EscapedByte ==
  <<"b", "a", "d", " ", "U+DC80">>
GatewayErrors == {ConnectionError, RateLimit, BadSurrogate, EscapedByte}

(***************************************************************************)
(* Exceptions: a function's result is a value or an exception that goes on *)
(* to the caller.                                                          *)
(***************************************************************************)
Exc(class, msg) == [type |-> "exception", class |-> class, msg |-> msg]
IsExc(v) == v.type = "exception"
NoException == [type |-> "none"]

\* the exception of a failed Gateway call
GatewayError(g) == Exc("GatewayError", g.msg)

(***************************************************************************)
(* print(text): sys.stdout is a UTF-8 stream.  Its error handler is that   *)
(* of the process: "strict" under a UTF-8 locale, "surrogateescape" under  *)
(* the C or POSIX locale.  Every character but a surrogate is encoded;     *)
(* under surrogateescape the surrogates U+DC80..U+DCFF, which stand for    *)
(* the bytes 0x80..0xFF, are written as those bytes.                       *)
(***************************************************************************)
StdoutErrors == {"strict", "surrogateescape"}

\* "'utf-8' codec can't encode character"
CantEncodeCharacter ==
  Chars("'utf-8' codec can't encode character")
\* ": surrogates not allowed"
SurrogatesNotAllowed ==
  Chars(": surrogates not allowed")

\* the stream with the error handler errors writes the character c
Encodable(c, errors) ==
  \/ ~IsSurrogate(c)
  \/ errors = "surrogateescape" /\ CodeOf(c) \in 56448..56575

\* a text that the stream cannot write
Unprintable(text, errors) ==
  \E i \in 1..Len(text) : ~Encodable(text[i], errors)

\* the exception of the encoder: it names the surrogates from the first
\* character the stream cannot write to the end of the run of surrogates
\* that character is in, by their indices counted from 0
UnicodeEncodeError(text, errors) ==
  LET first == CHOOSE i \in 1..Len(text) :
                 /\ ~Encodable(text[i], errors)
                 /\ \A j \in 1..(i - 1) : Encodable(text[j], errors)
      last == CHOOSE k \in first..Len(text) :
                /\ \A j \in first..k : IsSurrogate(text[j])
                /\ k = Len(text) \/ ~IsSurrogate(text[k + 1])
      Position(i) == DigitChars(DigitsOfNat(i - 1))
      one == Chars(" '") \o <<"\\", "u">>
               \o HexOf(CodeOf(text[first]), 4, LowerHexDigits)
               \o Chars("' in position ") \o Position(first)
      several == Chars("s in position ") \o Position(first) \o <<"-">>
                   \o Position(last)
  IN Exc("UnicodeEncodeError",
         CantEncodeCharacter \o (IF first = last THEN one ELSE several)
           \o SurrogatesNotAllowed)

\* print(text) in an except clause that then returns value
Printed(text, value, errors) ==
  IF Unprintable(text, errors) THEN UnicodeEncodeError(text, errors)
  ELSE value

(***************************************************************************)
(* main.py: get_candidate_match_score                                      *)
(***************************************************************************)
MatchResult(score, skills, explanation) ==
  [type |-> "tuple", score |-> score, skills |-> skills,
   explanation |-> explanation]

\* mutant: the explanation is left unset before the loop
MatchDefaults_Unset == MatchResult(PyInt(0), PyStr(<<>>), PyNone)

\* the defaults set before the loop over the lines
MatchDefaults == MatchResult(PyInt(0), PyStr(<<>>), PyStr(UnableToExtract))

\* mutant: a range gives its lower end and not the average
ScoreOfLine_LowerEnd(line) ==
  LET score_text == Strip(Split(line, ScorePrefix)[2])
      parts == Split(score_text, Hyphen)
      lo == ParseInt(parts[1])
      hi == ParseInt(parts[2])
      whole == ParseInt(score_text)
  IN IF Contains(score_text, Hyphen)
       THEN (IF lo.err \/ hi.err THEN PyInt(0) ELSE lo.val)
       ELSE (IF whole.err THEN PyInt(0) ELSE whole.val)

\* the body of the try of a Score: line; ValueError gives 0
ScoreOfLine(line) ==
  LET score_text == Strip(Split(line, ScorePrefix)[2])
      parts == Split(score_text, Hyphen)
      lo == ParseInt(parts[1])
      hi == ParseInt(parts[2])
      whole == ParseInt(score_text)
  IN IF Contains(score_text, Hyphen)
       THEN (IF lo.err \/ hi.err THEN PyInt(0) ELSE HalfSum(lo.val, hi.val))
       ELSE (IF whole.err THEN PyInt(0) ELSE whole.val)

\* one iteration of the loop over the lines
ParseLine(acc, line) ==
  IF StartsWith(line, ScorePrefix)
    THEN [acc EXCEPT !.score = ScoreOfLine(line)]
  ELSE IF StartsWith(line, SkillsPrefix)
    THEN [acc EXCEPT !.skills = PyStr(Strip(Split(line, SkillsPrefix)[2]))]
  ELSE IF StartsWith(line, ExplanationPrefix)
    THEN [acc EXCEPT
            !.explanation = PyStr(Strip(Split(line, ExplanationPrefix)[2]))]
  ELSE acc

RECURSIVE ParseLines(_, _)
ParseLines(acc, lines) ==
  IF lines = <<>> THEN acc
  ELSE ParseLines(ParseLine(acc, Head(lines)), Tail(lines))

\* the except clause of get_candidate_match_score
MatchError(msg, errors) ==
  Printed(ErrorInLLM \o msg,
          MatchResult(PyInt(0), PyStr(<<>>), PyStr(ErrorInLLM \o msg)),
          errors)

\* g is the outcome of the Gateway call and errors the error handler of
\* sys.stdout
get_candidate_match_score(g, errors) ==
  CASE g.kind = "text" -> ParseLines(MatchDefaults, SplitLines(g.text))
    [] g.kind = "none" -> MatchError(NoSplitlines, errors)
    [] g.kind = "raise" -> MatchError(g.msg, errors)

(***************************************************************************)
(* main.py: extract_location_from_query                                    *)
(***************************************************************************)
\* "null"
Null ==
  <<"n", "u", "l", "l">>
\* "none"
NoneWord ==
  <<"n", "o", "n", "e">>
\* "no location specified"
NoLocationSpecified ==
  <<"n", "o", " ", "l", "o", "c", "a", "t", "i", "o", "n", " ", "s", "p",
    "e", "c", "i", "f", "i", "e", "d">>

\* the first country of the list whose lower-cased name is in the response
RECURSIVE FirstCountryIn(_, _)
FirstCountryIn(response, country_list) ==
  IF country_list = <<>> THEN PyNone
  ELSE IF Contains(response, Lower(Head(country_list)))
    THEN PyStr(Head(country_list))
  ELSE FirstCountryIn(response, Tail(country_list))

\* "Error extracting location: "
ErrorExtractingLocation ==
  Chars("Error extracting location: ")

\* the body of the try on a response that is a text
LocationIn(text, country_list) ==
  LET Known(response) ==
        IF response = Null \/ response = NoneWord
             \/ response = NoLocationSpecified
          THEN PyNone
          ELSE FirstCountryIn(response, country_list)
  IN Known(Strip(Lower(Strip(text))))

extract_location_from_query(g, country_list, errors) ==
  CASE g.kind = "text" -> LocationIn(g.text, country_list)
    [] g.kind = "none" ->
         Printed(ErrorExtractingLocation \o NoStrip, PyNone, errors)
    [] g.kind = "raise" ->
         Printed(ErrorExtractingLocation \o g.msg, PyNone, errors)

(***************************************************************************)
(* backend/main.py: extract_location_from_query                            *)
(***************************************************************************)
\* "Error in extract_location_from_query: "
ErrorInExtractLocation ==
  Chars("Error in extract_location_from_query: ")

backend_extract_location_from_query(g, country_list, errors) ==
  LET Location(location) ==
        IF Lower(location) # Null THEN PyStr(location) ELSE PyNone
  IN CASE g.kind = "text" -> Location(Strip(g.text))
       [] g.kind = "none" ->
            Printed(ErrorInExtractLocation \o NoStrip, PyNone, errors)
       [] g.kind = "raise" ->
            Printed(ErrorInExtractLocation \o g.msg, PyNone, errors)

(***************************************************************************)
(* main.py: get_experience_years                                           *)
(***************************************************************************)
\* "Error estimating experience: "
ErrorEstimatingExperience ==
  Chars("Error estimating experience: ")

get_experience_years(g, errors) ==
  LET Years(parsed) == IF parsed.err THEN PyInt(0) ELSE parsed.val
  IN CASE g.kind = "text" -> Years(ParseInt(Strip(g.text)))
       [] g.kind = "none" ->
            Printed(ErrorEstimatingExperience \o NoStrip, PyInt(0), errors)
       [] g.kind = "raise" ->
            Printed(ErrorEstimatingExperience \o g.msg, PyInt(0), errors)

(***************************************************************************)
(* backend/main.py: get_experience_years                                   *)
(***************************************************************************)
\* "Error in get_experience_years: "
ErrorInGetExperience ==
  Chars("Error in get_experience_years: ")

backend_get_experience_years(g, errors) ==
  CASE g.kind = "text" -> PyStr(Strip(g.text))
    [] g.kind = "none" ->
         Printed(ErrorInGetExperience \o NoStrip, PyStr(<<"0">>), errors)
    [] g.kind = "raise" ->
         Printed(ErrorInGetExperience \o g.msg, PyStr(<<"0">>), errors)

(***************************************************************************)
(* main.py: extract_skills_from_resume                                     *)
(***************************************************************************)
\* "Error extracting skills: "
ErrorExtractingSkills ==
  <<"E", "r", "r", "o", "r", " ", "e", "x", "t", "r", "a", "c", "t", "i",
    "n", "g", " ", "s", "k", "i", "l", "l", "s", ":", " ">>

extract_skills_from_resume(g) ==
  CASE g.kind = "text" -> PyStr(Strip(g.text))
    [] g.kind = "none" -> PyStr(ErrorExtractingSkills \o NoStrip)
    [] g.kind = "raise" -> PyStr(ErrorExtractingSkills \o g.msg)

(***************************************************************************)
(* backend/main.py: extract_skills_from_resume                             *)
(***************************************************************************)
\* "Error in extract_skills_from_resume: "
ErrorInExtractSkills ==
  Chars("Error in extract_skills_from_resume: ")

backend_extract_skills_from_resume(g, errors) ==
  CASE g.kind = "text" -> PyStr(Strip(g.text))
    [] g.kind = "none" ->
         Printed(ErrorInExtractSkills \o NoStrip, PyStr(<<>>), errors)
    [] g.kind = "raise" ->
         Printed(ErrorInExtractSkills \o g.msg, PyStr(<<>>), errors)

(***************************************************************************)
(* Python values of the other types.  A dict is its items in insertion     *)
(* order.  A float is a double, inf or nan.  A double is kept as the       *)
(* shortest decimal numeral that reads back as the same double, the one    *)
(* repr() shows: its sign, its significant digits (first and last one not  *)
(* zero) and the power of ten of the first digit.                          *)
(***************************************************************************)
PyBool(b) == [type |-> "bool", bool |-> b]
PyDict(pairs) == [type |-> "dict", pairs |-> pairs]
PyFloat(neg, digits, exp) ==
  [type |-> "float", kind |-> "finite", neg |-> neg, digits |-> digits,
   exp |-> exp]
PyInf(neg) == [type |-> "float", kind |-> "inf", neg |-> neg]
PyNan == [type |-> "float", kind |-> "nan"]

\* d[key] = value: a key that is present keeps its place
SetItem(pairs, key, value) ==
  IF \E i \in 1..Len(pairs) : pairs[i][1] = key
    THEN [i \in 1..Len(pairs) |->
            IF pairs[i][1] = key THEN <<key, value>> ELSE pairs[i]]
    ELSE Append(pairs, <<key, value>>)
HasKey(d, key) == \E i \in 1..Len(d.pairs) : d.pairs[i][1] = key
GetItem(d, key) ==
  d.pairs[CHOOSE i \in 1..Len(d.pairs) : d.pairs[i][1] = key][2]

\* digit sequences as numerals of the same length, compared from the left
DigitsLess(a, b) ==
  LET n == IF Len(a) > Len(b) THEN Len(a) ELSE Len(b)
      A(i) == IF i <= Len(a) THEN a[i] ELSE 0
      B(i) == IF i <= Len(b) THEN b[i] ELSE 0
      diff == {i \in 1..n : A(i) # B(i)}
  IN diff # {} /\ A(Min(diff)) < B(Min(diff))

(***************************************************************************)
(* float(numeral): the double nearest to a decimal numeral, ties to the    *)
(* even mantissa.  A double is m * 2^e with m < 2^53 and e >= -1074; m is  *)
(* kept in decimal digits.  Multiples by powers of 2 and of 5 of a decimal *)
(* numeral are decimal numerals, so the arithmetic is exact.               *)
(***************************************************************************)
\* a natural in decimal digits without its leading zeros, and comparison
NatLess(a, b) ==
  LET Less(x, y) == Len(x) < Len(y) \/ (Len(x) = Len(y) /\ DigitsLess(x, y))
  IN Less(NoLeadingZeros(a), NoLeadingZeros(b))
Zeros(n) == [i \in 1..n |-> 0]

\* a + 1 and a - 1 (of a > 0) on decimal digits
Succ(a) ==
  LET Carry(k) ==
        IF k = 0 THEN <<1>> \o Zeros(Len(a))
        ELSE [i \in 1..Len(a) |->
                IF i < k THEN a[i] ELSE IF i = k THEN a[i] + 1 ELSE 0]
  IN Carry(SkipBack(a, Len(a), {9}))
Pred(a) ==
  LET Borrow(k) ==
        [i \in 1..Len(a) |->
           IF i < k THEN a[i] ELSE IF i = k THEN a[i] - 1 ELSE 9]
  IN Borrow(SkipBack(a, Len(a), {0}))

\* 2 * a and 5 * a on decimal digits, for a without leading zeros: the
\* carry into a digit of 2 * a comes from the digit to its right alone, and
\* 5 * a is half of 10 * a
DropZero(r) == IF Len(r) > 1 /\ r[1] = 0 THEN Tail(r) ELSE r
DoubleDigits(a) ==
  LET Digit(i) == IF i = 0 THEN 0 ELSE a[i]
      Carry(i) == IF i < Len(a) /\ a[i + 1] >= 5 THEN 1 ELSE 0
  IN DropZero([i \in 1..(Len(a) + 1) |->
                 (2 * Digit(i - 1) + Carry(i - 1)) % 10])
FiveTimes(a) == DropZero(HalveDigits(a \o <<0>>))

\* a * 2^k and a * 5^k
RECURSIVE TimesTwoTo(_, _)
TimesTwoTo(a, k) ==
  IF a = <<0>> \/ k = 0 THEN a
  ELSE IF k = 1 THEN DoubleDigits(a)
  ELSE TimesTwoTo(TimesTwoTo(a, k \div 2), k - k \div 2)
RECURSIVE TimesFiveTo(_, _)
TimesFiveTo(a, k) ==
  IF a = <<0>> \/ k = 0 THEN a
  ELSE IF k = 1 THEN FiveTimes(a)
  ELSE TimesFiveTo(TimesFiveTo(a, k \div 2), k - k \div 2)

\* ds * 10^k / 2^e as a decimal numeral: digits * 10^point
Scaled(ds, k, e) ==
  IF e <= 0 THEN [digits |-> TimesTwoTo(ds, 0 - e), point |-> k]
  ELSE [digits |-> TimesFiveTo(ds, e), point |-> k - e]
\* its integer part and the digits behind its decimal point
IntPart(x) ==
  IF x.point >= 0 THEN x.digits \o Zeros(x.point)
  ELSE IF Len(x.digits) <= 0 - x.point THEN <<0>>
  ELSE SubSeq(x.digits, 1, Len(x.digits) + x.point)
FracPart(x) ==
  IF x.point >= 0 THEN <<>>
  ELSE IF Len(x.digits) >= 0 - x.point
    THEN SubSeq(x.digits, Len(x.digits) + x.point + 1, Len(x.digits))
  ELSE Zeros(0 - x.point - Len(x.digits)) \o x.digits

\* a fraction against one half: "below", "half" or "above"
AgainstHalf(frac) ==
  IF frac = <<>> \/ frac[1] < 5 THEN "below"
  ELSE IF frac[1] = 5 /\ \A i \in 2..Len(frac) : frac[i] = 0 THEN "half"
  ELSE "above"
\* the integer nearest to x, the even one of two that are equally near
NearestInt(x) ==
  LET Rounded(int, side) ==
        IF side = "above" \/ (side = "half" /\ int[Len(int)] % 2 = 1)
          THEN Succ(int) ELSE int
  IN Rounded(IntPart(x), AgainstHalf(FracPart(x)))

\* 2^52 and 2^53
TwoTo52 == <<4, 5, 0, 3, 5, 9, 9, 6, 2, 7, 3, 7, 0, 4, 9, 6>>
TwoTo53 == <<9, 0, 0, 7, 1, 9, 9, 2, 5, 4, 7, 4, 0, 9, 9, 2>>

\* the double nearest to ds * 10^k, for ds without leading zeros and not
\* zero.  The exponent is the one that puts the numeral over 2^e between
\* 2^52 and 2^53, and is -1074 for the numerals too small for that; it is
\* looked for downwards from an exponent that 3.321928 < log2(10) shows to
\* be large enough.
NearestDouble(ds, k) ==
  LET top == (((Len(ds) - 1 + k) * 3321928) \div 1000000) - 47
      most == IF top + 1074 < 8 THEN top + 1074 ELSE 8
      Normal(m, e) ==
        IF m = TwoTo53 THEN [m |-> TwoTo52, e |-> e + 1]
        ELSE [m |-> m, e |-> e]
      Lowered(x, j) == [digits |-> TimesTwoTo(x.digits, j), point |-> x.point]
      Rounded(x, j) == Normal(NearestInt(Lowered(x, j)), top - j)
      Enough(x, j) == ~NatLess(IntPart(Lowered(x, j)), TwoTo52)
      From(x) ==
        Rounded(x, CHOOSE j \in 0..most :
                     /\ j = most \/ Enough(x, j)
                     /\ \A i \in 0..(j - 1) : ~Enough(x, i))
  IN IF top <= 0 - 1074
       THEN Normal(NearestInt(Scaled(ds, k, 0 - 1074)), 0 - 1074)
       ELSE From(Scaled(ds, k, top))

\* the shortest decimal numeral that reads back as the double d, the one
\* nearest to d of several: all the numerals strictly between the middles
\* to the two neighbours of d read back as d, and the two middles do when m
\* is even.  The lower neighbour of a power of two is at half the distance.
\* In units of 2^(e - 2), d is 4 * m and the two middles are whole.
ShortestDigits(d) ==
  LET four == DoubleDigits(DoubleDigits(d.m))
      closer == d.m = TwoTo52 /\ d.e > 0 - 1074
      Units(a) == IF d.e >= 2 THEN TimesTwoTo(a, d.e - 2)
                  ELSE TimesFiveTo(a, 2 - d.e)
      point == IF d.e >= 2 THEN 0 ELSE d.e - 2
      even == d.m[Len(d.m)] % 2 = 0
      Padded(a, n) == Zeros(n - Len(a)) \o a
      Shortest(lo, mid, hi, n) ==
        LET Down(t) == SubSeq(mid, 1, t) \o Zeros(n - t)
            Up(t) == Succ(SubSeq(mid, 1, t)) \o Zeros(n - t)
            In(c) == IF even THEN ~DigitsLess(c, lo) /\ ~DigitsLess(hi, c)
                     ELSE DigitsLess(lo, c) /\ DigitsLess(c, hi)
            Some(t) == In(Down(t)) \/ In(Up(t))
            Nearer(t, side) ==
              IF ~In(Up(t)) THEN Down(t)
              ELSE IF ~In(Down(t)) THEN Up(t)
              ELSE IF side = "above" \/ (side = "half" /\ mid[t] % 2 = 1)
                THEN Up(t)
              ELSE Down(t)
            Chosen(t) == Nearer(t, AgainstHalf(SubSeq(mid, t + 1, n)))
            Numeral(c, first) ==
              [digits |-> SubSeq(c, first, SkipBack(c, n, {0})),
               exp |-> n - first + point]
            Stripped(c) == Numeral(c, SkipIn(c, 1, {0}))
        IN Stripped(Chosen(CHOOSE t \in 1..n :
                             Some(t) /\ \A u \in 1..(t - 1) : ~Some(u)))
      Between(lo, mid, hi) ==
        Shortest(Padded(lo, Len(hi) + 1), Padded(mid, Len(hi) + 1),
                 Padded(hi, Len(hi) + 1), Len(hi) + 1)
  IN Between(Units(IF closer THEN Pred(four) ELSE Pred(Pred(four))),
             Units(four), Units(Succ(Succ(four))))

\* the float that is the double d: inf from 2^1024 on
FloatOf(neg, d) ==
  LET Short(r) == PyFloat(neg, r.digits, r.exp)
  IN IF d.m = <<0>> THEN PyFloat(neg, <<0>>, 0)
     ELSE IF d.e > 971 THEN PyInf(neg)
     ELSE Short(ShortestDigits(d))

\* MAX_DIGITS of the string to float conversion
MaxDigits == 1000000000

\* float of the numeral with the digits ds, the first n of them before the
\* decimal point, times ten to the power e; err stands for the ValueError of
\* a numeral with more than MaxDigits digits, the leading zeros not counted,
\* or with more than MaxDigits digits behind the decimal point.  A numeral
\* of 10^310 or more is inf and one below 10^-325 is zero.  A numeral of at
\* most 15 significant
\* digits between 10^-307 and 10^308 is the shortest numeral of its double
\* (DBL_DIG).  The middles between doubles have fewer than 800 significant
\* digits, so that all that matters of the digits behind the first 800 is
\* whether they are all zero.
MkFloat(neg, ds, n, e) ==
  LET first == SkipIn(ds, 1, {0})
      last == SkipBack(ds, Len(ds), {0})
      exp == n - first + e
      Cut(sig) ==
        IF Len(sig) <= 800 THEN NearestDouble(sig, exp - (Len(sig) - 1))
        ELSE NearestDouble(SubSeq(sig, 1, 800) \o <<1>>, exp - 800)
      Nearest(sig) ==
        IF Len(sig) <= 15 /\ exp >= 0 - 307 /\ exp <= 307
          THEN PyFloat(neg, sig, exp)
          ELSE FloatOf(neg, Cut(sig))
      Float(val) == [err |-> FALSE, val |-> val]
  IN IF Len(ds) - (first - 1) > MaxDigits \/ Len(ds) - n > MaxDigits
       THEN ValueError
     ELSE IF last = 0 THEN Float(PyFloat(neg, <<0>>, 0))
     ELSE IF exp > 309 THEN Float(PyInf(neg))
     ELSE IF exp < 0 - 326 THEN Float(PyFloat(neg, <<0>>, 0))
     ELSE Float(Nearest(SubSeq(ds, first, last)))

(***************************************************************************)
(* json.loads: the scanner of the json module.  A scan of a value that     *)
(* starts at index i gives the value and the index after it, or fails.     *)
(***************************************************************************)
JsonWhitespace == {" ", "\t", "\n", "\r"}
ControlChars == {Chr(i) : i \in 0..31}

At(s, i) == IF i >= 1 /\ i <= Len(s) THEN s[i] ELSE ""
HasWord(s, i, w) ==
  i + Len(w) - 1 <= Len(s) /\ SubSeq(s, i, i + Len(w) - 1) = w

JsonFail == [ok |-> FALSE]
JsonAt(v, end) == [ok |-> TRUE, val |-> v, end |-> end]

\* the number of the four hex digits at index i, -1 when they are not there
HexCode(s, i) ==
  IF i + 3 <= Len(s) /\ \A k \in i..(i + 3) : IsHex(s[k])
    THEN HexNumber(SubSeq(s, i, i + 3))
    ELSE -1

SimpleEscapes == {"\"", "\\", "/", "b", "f", "n", "r", "t"}
Unescaped(e) ==
  CASE e = "b" -> Chr(8)
    [] e = "f" -> "\f"
    [] e = "n" -> "\n"
    [] e = "r" -> "\r"
    [] e = "t" -> "\t"
    [] OTHER -> e

\* the content of a string literal with its escapes replaced; a \uXXXX of
\* a high surrogate followed by a \uXXXX of a low one is one character
RECURSIVE Unescape(_)
Unescape(raw) ==
  LET k == Find(raw, <<"\\">>, 1)
      e == At(raw, k + 1)
      hi == HexCode(raw, k + 2)
      pair == hi \in 55296..56319 /\ At(raw, k + 6) = "\\"
                /\ At(raw, k + 7) = "u"
      lo == HexCode(raw, k + 8)
      joined == pair /\ lo \in 56320..57343
      code == IF joined THEN 65536 + (hi - 55296) * 1024 + (lo - 56320)
              ELSE hi
      c == IF e = "u" THEN CharOf(code) ELSE Unescaped(e)
      next == IF e # "u" THEN k + 2 ELSE IF joined THEN k + 12 ELSE k + 6
      rest == Unescape(SubSeq(raw, next, Len(raw)))
  IN IF k = 0 THEN [ok |-> TRUE, text |-> raw]
     ELSE IF (e = "u" /\ (hi < 0 \/ (pair /\ lo < 0)))
               \/ (e # "u" /\ e \notin SimpleEscapes)
               \/ ~rest.ok
       THEN [ok |-> FALSE]
     ELSE [ok |-> TRUE, text |-> SubSeq(raw, 1, k - 1) \o <<c>> \o rest.text]

\* the index of the quote that ends the string whose content starts at i:
\* the first quote that no backslash escapes; 0 when there is none
ClosingQuote(s, i) ==
  LET Before(k) == IF k < i THEN i - 1 ELSE k
      Backslashes(j) == j - 1 - Before(SkipBack(s, j - 1, {"\\"}))
      Closes(j) == s[j] = "\"" /\ Backslashes(j) % 2 = 0
  IN IF \A j \in i..Len(s) : ~Closes(j) THEN 0
     ELSE CHOOSE j \in i..Len(s) : Closes(j) /\ \A k \in i..(j - 1) : ~Closes(k)

\* py_scanstring in strict mode: a control character is refused
ScanString(s, i) ==
  LET j == ClosingQuote(s, i)
      raw == SubSeq(s, i, j - 1)
      u == Unescape(raw)
  IN IF j = 0 \/ (\E k \in 1..Len(raw) : raw[k] \in ControlChars) \/ ~u.ok
       THEN JsonFail
       ELSE JsonAt(PyStr(u.text), j + 1)

\* the exponent of a numeral of len digits.  The first significant digit
\* of the numeral stands fewer than len places from the decimal point, so
\* that an exponent of len + 400 or more makes every numeral but zero 10^400
\* or more, which is inf, and one of -(len + 400) or less makes it 10^-400
\* or less, which is zero: such an exponent is read as len + 400.
ExponentOf(neg, ds, len) ==
  LET nz == {i \in 1..Len(ds) : ds[i] # 0}
      sig == IF nz = {} THEN <<0>> ELSE SubSeq(ds, Min(nz), Len(ds))
      most == len + 400
      n == IF Len(sig) > 9 THEN most
           ELSE IF NatOfDigits(sig) > most THEN most
           ELSE NatOfDigits(sig)
  IN IF neg THEN 0 - n ELSE n

\* _match_number: -?(0|[1-9]\d*)(\.\d+)?([eE][-+]?\d+)?; an int when there
\* is neither fraction nor exponent, a float otherwise; the ValueError of
\* int() or float() for a numeral too long ends the scan
ScanNumber(s, i) ==
  LET neg == At(s, i) = "-"
      i0 == IF neg THEN i + 1 ELSE i
      i1 == IF At(s, i0) = "0" THEN i0 + 1 ELSE SkipIn(s, i0, Digits)
      f1 == SkipIn(s, i1 + 1, Digits)
      frac == At(s, i1) = "." /\ f1 > i1 + 1
      i2 == IF frac THEN f1 ELSE i1
      esign == At(s, i2 + 1) \in {"+", "-"}
      e0 == IF esign THEN i2 + 2 ELSE i2 + 1
      e1 == SkipIn(s, e0, Digits)
      exp == At(s, i2) \in {"e", "E"} /\ e1 > e0
      i3 == IF exp THEN e1 ELSE i2
      intDigits == DigitValues(SubSeq(s, i0, i1 - 1))
      fracDigits == IF frac THEN DigitValues(SubSeq(s, i1 + 1, i2 - 1))
                    ELSE <<>>
      e == IF exp THEN ExponentOf(At(s, i2 + 1) = "-",
                                  DigitValues(SubSeq(s, e0, e1 - 1)),
                                  Len(intDigits) + Len(fracDigits))
           ELSE 0
      float == MkFloat(neg, intDigits \o fracDigits, Len(intDigits), e)
  IN IF i1 = i0 THEN JsonFail
     ELSE IF frac \/ exp
       THEN IF float.err THEN JsonFail ELSE JsonAt(float.val, i3)
     ELSE IF Len(intDigits) > 4300 THEN JsonFail
     ELSE JsonAt(MkInt(neg, intDigits), i3)

NaNWord == <<"N", "a", "N">>
InfinityWord == <<"I", "n", "f", "i", "n", "i", "t", "y">>
TrueWord == <<"t", "r", "u", "e">>
FalseWord == <<"f", "a", "l", "s", "e">>

\* scan_once
RECURSIVE ScanValue(_, _)
RECURSIVE ScanMembers(_, _, _)
RECURSIVE ScanElements(_, _, _)
ScanValue(s, i) ==
  LET c == At(s, i)
      Object(n) == IF At(s, n) = "}" THEN JsonAt(PyDict(<<>>), n + 1)
                   ELSE ScanMembers(s, n, <<>>)
      Array(n) == IF At(s, n) = "]" THEN JsonAt(PyList(<<>>), n + 1)
                  ELSE ScanElements(s, n, <<>>)
  IN CASE c = "\"" -> ScanString(s, i + 1)
       [] c = "{" -> Object(SkipIn(s, i + 1, JsonWhitespace))
       [] c = "[" -> Array(SkipIn(s, i + 1, JsonWhitespace))
       [] c = "n" /\ HasWord(s, i, Null) -> JsonAt(PyNone, i + 4)
       [] c = "t" /\ HasWord(s, i, TrueWord) -> JsonAt(PyBool(TRUE), i + 4)
       [] c = "f" /\ HasWord(s, i, FalseWord) -> JsonAt(PyBool(FALSE), i + 5)
       [] c = "N" /\ HasWord(s, i, NaNWord) -> JsonAt(PyNan, i + 3)
       [] c = "I" /\ HasWord(s, i, InfinityWord) -> JsonAt(PyInf(FALSE), i + 8)
       [] c = "-" /\ HasWord(s, i + 1, InfinityWord) ->
            JsonAt(PyInf(TRUE), i + 9)
       [] OTHER -> ScanNumber(s, i)

\* the members of an object from the key at index i on: a key, a colon, a
\* value, then the end of the object or a comma and the next member
ScanMembers(s, i, pairs) ==
  LET Rest(sep, items) ==
        IF At(s, sep) = "}" THEN JsonAt(PyDict(items), sep + 1)
        ELSE IF At(s, sep) = ","
          THEN ScanMembers(s, SkipIn(s, sep + 1, JsonWhitespace), items)
        ELSE JsonFail
      Member(key, value) ==
        IF ~value.ok THEN JsonFail
        ELSE Rest(SkipIn(s, value.end, JsonWhitespace),
                  SetItem(pairs, key, value.val))
      Value(key, colon) ==
        IF At(s, colon) # ":" THEN JsonFail
        ELSE Member(key, ScanValue(s, SkipIn(s, colon + 1, JsonWhitespace)))
      Key(key) ==
        IF ~key.ok THEN JsonFail
        ELSE Value(key.val.str, SkipIn(s, key.end, JsonWhitespace))
  IN IF At(s, i) # "\"" THEN JsonFail ELSE Key(ScanString(s, i + 1))

\* the elements of an array from the value at index i on
ScanElements(s, i, items) ==
  LET Rest(sep, values) ==
        IF At(s, sep) = "]" THEN JsonAt(PyList(values), sep + 1)
        ELSE IF At(s, sep) = ","
          THEN ScanElements(s, SkipIn(s, sep + 1, JsonWhitespace), values)
        ELSE JsonFail
      Element(value) ==
        IF ~value.ok THEN JsonFail
        ELSE Rest(SkipIn(s, value.end, JsonWhitespace),
                  Append(items, value.val))
  IN Element(ScanValue(s, i))

\* sys.getrecursionlimit()
RecursionLimit == 1000

\* scan_once enters one level of recursion for every array and object it
\* is inside of, and the interpreter refuses the level that reaches its
\* recursion limit, the frames in use counted in.  frames are the frames in
\* use when json.loads is called, the caller's included; loads, decode and
\* raw_decode take three more.
MaxNesting(frames) == RecursionLimit - 1 - (frames + 3)

\* the arrays and objects of a document are nested deeper than
\* MaxNesting(frames): a bracket counts when it is outside the strings,
\* that is behind an even number of quotes that no backslash escapes
TooDeep(s, frames) ==
  LET Quote(j) ==
        s[j] = "\"" /\ (j - 1 - SkipBack(s, j - 1, {"\\"})) % 2 = 0
      Among(chars, quotes) ==
        {j \in 1..Len(s) :
           s[j] \in chars /\ Cardinality({q \in quotes : q < j}) % 2 = 0}
      Deep(opens, closes) ==
        \E i \in opens :
          Cardinality({j \in opens : j <= i})
            - Cardinality({j \in closes : j < i}) > MaxNesting(frames)
      Outside(quotes) ==
        Deep(Among({"[", "{"}, quotes), Among({"]", "}"}, quotes))
  IN /\ Cardinality({j \in 1..Len(s) : s[j] \in {"[", "{"}})
          > MaxNesting(frames)
     /\ Outside({j \in 1..Len(s) : Quote(j)})

\* json.loads(text) called with frames frames in use: the value of the
\* whole document; err stands for the JSONDecodeError (or ValueError, or
\* RecursionError) it raises
json_loads(text, frames) ==
  LET Whole(r) ==
        IF ~r.ok \/ SkipIn(text, r.end, JsonWhitespace) # Len(text) + 1
          THEN [err |-> TRUE, val |-> PyNone]
          ELSE [err |-> FALSE, val |-> r.val]
  IN IF At(text, 1) = "U+FEFF" \/ TooDeep(text, frames)
       THEN [err |-> TRUE, val |-> PyNone]
       ELSE Whole(ScanValue(text, SkipIn(text, 1, JsonWhitespace)))

(***************************************************************************)
(* backend/main.py: get_candidate_match_score                              *)
(***************************************************************************)
ScoreKey == <<"s", "c", "o", "r", "e">>
SkillsKey == <<"s", "k", "i", "l", "l", "s">>
ExplanationKey == <<"e", "x", "p", "l", "a", "n", "a", "t", "i", "o", "n">>

\* "Error processing match"
ErrorProcessingMatch ==
  <<"E", "r", "r", "o", "r", " ", "p", "r", "o", "c", "e", "s", "s", "i",
    "n", "g", " ", "m", "a", "t", "c", "h">>

\* "Error in get_candidate_match_score: "
ErrorInGetMatch ==
  Chars("Error in get_candidate_match_score: ")

\* every exception (of the Gateway, of json.loads, of a subscript of its
\* result) ends in the except clause; the messages of json.loads and of the
\* subscripts are ASCII, so that only the one of the Gateway can fail to
\* print.  errors is the error handler of sys.stdout and frames the frames
\* in use when the function is called; its own frame is one more.
backend_get_candidate_match_score(g, errors, frames) ==
  LET Failed == MatchResult(PyInt(0), PyStr(<<>>), PyStr(ErrorProcessingMatch))
      Subscripts(result) ==
        IF result.type = "dict" /\ HasKey(result, ScoreKey)
             /\ HasKey(result, SkillsKey) /\ HasKey(result, ExplanationKey)
          THEN MatchResult(GetItem(result, ScoreKey),
                           GetItem(result, SkillsKey),
                           GetItem(result, ExplanationKey))
          ELSE Failed
      Loaded(doc) == IF doc.err THEN Failed ELSE Subscripts(doc.val)
  IN CASE g.kind = "text" -> Loaded(json_loads(g.text, frames + 1))
       [] g.kind = "none" -> Failed
       [] g.kind = "raise" -> Printed(ErrorInGetMatch \o g.msg, Failed, errors)

(***************************************************************************)
(* Responses of the Gateway to the match prompt of backend/main.py         *)
(***************************************************************************)
\* "{"score": 85, "skills": "a", "explanation": "ok"}"
JsonMatch ==
  <<"{", "\"", "s", "c", "o", "r", "e", "\"", ":", " ", "8", "5", ",", " ",
    "\"", "s", "k", "i", "l", "l", "s", "\"", ":", " ", "\"", "a", "\"",
    ",", " ", "\"", "e", "x", "p", "l", "a", "n", "a", "t", "i", "o", "n",
    "\"", ":", " ", "\"", "o", "k", "\"", "}">>
\* "{"score": null, "skills": "a", "explanation": "ok"}"
JsonNullScore ==
  <<"{", "\"", "s", "c", "o", "r", "e", "\"", ":", " ", "n", "u", "l", "l",
    ",", " ", "\"", "s", "k", "i", "l", "l", "s", "\"", ":", " ", "\"",
    "a", "\"", ",", " ", "\"", "e", "x", "p", "l", "a", "n", "a", "t", "i",
    "o", "n", "\"", ":", " ", "\"", "o", "k", "\"", "}">>
\* "{"score": "high", "skills": "a", "explanation": "ok"}"
JsonWordScore ==
  <<"{", "\"", "s", "c", "o", "r", "e", "\"", ":", " ", "\"", "h", "i",
    "g", "h", "\"", ",", " ", "\"", "s", "k", "i", "l", "l", "s", "\"",
    ":", " ", "\"", "a", "\"", ",", " ", "\"", "e", "x", "p", "l", "a",
    "n", "a", "t", "i", "o", "n", "\"", ":", " ", "\"", "o", "k", "\"", "}">>
\* "{"score": 85}"
JsonNoSkills ==
  <<"{", "\"", "s", "c", "o", "r", "e", "\"", ":", " ", "8", "5", "}">>
JsonAbove ==
  Chars("{\"score\": 150, \"skills\": \"a\", \"explanation\": \"ok\"}")
JsonTextScore ==
  Chars("{\"score\": \"85.0\", \"skills\": \"a\", \"explanation\": \"ok\"}")
JsonSkillsList ==
  Chars("{\"explanation\":\"ok\",\"skills\":[\"a\",\"b\"],\"score\":85.5}")
\* a score of more digits than a double holds: it is read as 85.0
JsonLongScore ==
  Chars("{\"score\": 85.00000000000000001, \"skills\": \"a\", \"explanation\": \"ok\"}")
JsonTexts ==
  {JsonMatch, JsonNullScore, JsonWordScore, JsonNoSkills, JsonAbove,
   JsonTextScore, JsonSkillsList, JsonLongScore}

(***************************************************************************)
(* load_resumes: the data file is missing (or unreadable), or holds rows.  *)
(* A DataFrame is its columns and its rows.                                *)
(***************************************************************************)
Columns == {"Name", "Phone", "Country", "Open To", "Email", "Resume"}
DataFrame(columns, rows) == [type |-> "DataFrame", columns |-> columns, rows |-> rows]
Row(name, phone, country, open_to, email, resume) ==
  [Name |-> name, Phone |-> phone, Country |-> country, OpenTo |-> open_to,
   Email |-> email, Resume |-> resume]

\* "United States"
UnitedStates ==
  <<"U", "n", "i", "t", "e", "d", " ", "S", "t", "a", "t", "e", "s">>
\* "United Kingdom"
UnitedKingdom ==
  <<"U", "n", "i", "t", "e", "d", " ", "K", "i", "n", "g", "d", "o", "m">>
\* "China"
China ==
  <<"C", "h", "i", "n", "a">>
\* the Name, Phone, Country, Open To, Email and Resume of John Smith, Maria
\* Garcia and Alex Chen
SAMPLE_CANDIDATES ==
  <<
    Row(
        <<"J", "o", "h", "n", " ", "S", "m", "i", "t", "h">>,
        <<"+", "1", "-", "5", "5", "5", "-", "0", "1", "2", "3">>,
        UnitedStates,
        <<"F", "u", "l", "l", "-", "t", "i", "m", "e", ",", " ", "R", "e",
          "m", "o", "t", "e">>,
        <<"j", "o", "h", "n", ".", "s", "m", "i", "t", "h", "@", "e", "m",
          "a", "i", "l", ".", "c", "o", "m">>,
        <<"E", "x", "p", "e", "r", "i", "e", "n", "c", "e", "d", " ", "s",
          "o", "f", "t", "w", "a", "r", "e", " ", "e", "n", "g", "i", "n",
          "e", "e", "r", " ", "w", "i", "t", "h", " ", "5", " ", "y", "e",
          "a", "r", "s", " ", "o", "f", " ", "e", "x", "p", "e", "r", "i",
          "e", "n", "c", "e", " ", "i", "n", " ", "P", "y", "t", "h", "o",
          "n", " ", "a", "n", "d", " ", "R", "e", "a", "c", "t", ".", " ",
          "S", "t", "r", "o", "n", "g", " ", "b", "a", "c", "k", "g", "r",
          "o", "u", "n", "d", " ", "i", "n", " ", "f", "u", "l", "l", "-",
          "s", "t", "a", "c", "k", " ", "d", "e", "v", "e", "l", "o", "p",
          "m", "e", "n", "t", " ", "a", "n", "d", " ", "c", "l", "o", "u",
          "d", " ", "t", "e", "c", "h", "n", "o", "l", "o", "g", "i", "e",
          "s", ".">>),
    Row(
        <<"M", "a", "r", "i", "a", " ", "G", "a", "r", "c", "i", "a">>,
        <<"+", "4", "4", "-", "2", "0", "-", "1", "2", "3", "4", "-", "5",
          "6", "7", "8">>,
        UnitedKingdom,
        <<"F", "u", "l", "l", "-", "t", "i", "m", "e", ",", " ", "H", "y",
          "b", "r", "i", "d">>,
        <<"m", "a", "r", "i", "a", ".", "g", "a", "r", "c", "i", "a", "@",
          "e", "m", "a", "i", "l", ".", "c", "o", "m">>,
        <<"S", "e", "n", "i", "o", "r", " ", "d", "e", "v", "e", "l", "o",
          "p", "e", "r", " ", "w", "i", "t", "h", " ", "e", "x", "p", "e",
          "r", "t", "i", "s", "e", " ", "i", "n", " ", "J", "a", "v", "a",
          " ", "a", "n", "d", " ", "S", "p", "r", "i", "n", "g", " ", "B",
          "o", "o", "t", ".", " ", "8", " ", "y", "e", "a", "r", "s", " ",
          "o", "f", " ", "e", "x", "p", "e", "r", "i", "e", "n", "c", "e",
          " ", "i", "n", " ", "e", "n", "t", "e", "r", "p", "r", "i", "s",
          "e", " ", "a", "p", "p", "l", "i", "c", "a", "t", "i", "o", "n",
          "s", " ", "a", "n", "d", " ", "m", "i", "c", "r", "o", "s", "e",
          "r", "v", "i", "c", "e", "s", " ", "a", "r", "c", "h", "i", "t",
          "e", "c", "t", "u", "r", "e", ".">>),
    Row(
        <<"A", "l", "e", "x", " ", "C", "h", "e", "n">>,
        <<"+", "8", "6", "-", "1", "0", "-", "1", "2", "3", "4", "-", "5",
          "6", "7", "8">>,
        China,
        <<"F", "u", "l", "l", "-", "t", "i", "m", "e", ",", " ", "O", "n",
          "-", "s", "i", "t", "e">>,
        <<"a", "l", "e", "x", ".", "c", "h", "e", "n", "@", "e", "m", "a",
          "i", "l", ".", "c", "o", "m">>,
        <<"F", "u", "l", "l", "-", "s", "t", "a", "c", "k", " ", "d", "e",
          "v", "e", "l", "o", "p", "e", "r", " ", "w", "i", "t", "h", " ",
          "3", " ", "y", "e", "a", "r", "s", " ", "o", "f", " ", "e", "x",
          "p", "e", "r", "i", "e", "n", "c", "e", " ", "i", "n", " ", "J",
          "a", "v", "a", "S", "c", "r", "i", "p", "t", ",", " ", "N", "o",
          "d", "e", ".", "j", "s", ",", " ", "a", "n", "d", " ", "R", "e",
          "a", "c", "t", ".", " ", "P", "a", "s", "s", "i", "o", "n", "a",
          "t", "e", " ", "a", "b", "o", "u", "t", " ", "b", "u", "i", "l",
          "d", "i", "n", "g", " ", "s", "c", "a", "l", "a", "b", "l", "e",
          " ", "w", "e", "b", " ", "a", "p", "p", "l", "i", "c", "a", "t",
          "i", "o", "n", "s", ".">>)
  >>

\* main.py: an empty DataFrame when the file cannot be read
load_resumes(file) ==
  IF file.readable THEN DataFrame(Columns, file.rows) ELSE DataFrame({}, <<>>)

\* backend/main.py: the sample candidates when the file cannot be read
backend_load_resumes(file) ==
  IF file.readable
    THEN DataFrame(Columns, file.rows)
    ELSE DataFrame(Columns, SAMPLE_CANDIDATES)

(***************************************************************************)
(* backend/api.py: `import main` binds main.py when the service is started *)
(* from the repository root and backend/main.py when it is started in      *)
(* backend/ (the script's directory comes first on sys.path, the parent    *)
(* directory is appended).                                                 *)
(***************************************************************************)
Modules == {"main.py", "backend/main.py"}

\* the functions each module defines
Functions(module) ==
  {"load_resumes", "get_candidate_match_score", "extract_skills_from_resume",
   "extract_location_from_query", "get_experience_years"}

main_load_resumes(module, file) ==
  IF module = "main.py" THEN load_resumes(file) ELSE backend_load_resumes(file)

main_get_candidate_match_score(module, g, errors, frames) ==
  IF module = "main.py"
    THEN get_candidate_match_score(g, errors)
    ELSE backend_get_candidate_match_score(g, errors, frames)

main_extract_skills_from_resume(module, g, errors) ==
  IF module = "main.py"
    THEN extract_skills_from_resume(g)
    ELSE backend_extract_skills_from_resume(g, errors)

main_extract_location_from_query(module, g, country_list, errors) ==
  IF module = "main.py"
    THEN extract_location_from_query(g, country_list, errors)
    ELSE backend_extract_location_from_query(g, country_list, errors)

main_get_experience_years(module, g, errors) ==
  IF module = "main.py"
    THEN get_experience_years(g, errors)
    ELSE backend_get_experience_years(g, errors)

(***************************************************************************)
(* Responses of the Gateway: concatenations of at most n fragments.        *)
(***************************************************************************)
RECURSIVE Flatten(_)
Flatten(fs) == IF fs = <<>> THEN <<>> ELSE Head(fs) \o Flatten(Tail(fs))

Texts(frags, n) ==
  {Flatten(fs) : fs \in UNION {[1..k -> frags] : k \in 0..n}}

MatchFrags ==
  {ScorePrefix, SkillsPrefix, ExplanationPrefix, <<"\n">>, <<" ">>, Hyphen,
   <<"8">>, <<"5">>, <<"a">>}

\* sample responses: those of the testable properties, and responses with a
\* malformed score before other directives, several hyphens, an out-of-scale
\* score, a sign, and repeated prefixes
\* "Score: 42\nSkills: a,b\nExplanation: ok"
Sample42 ==
  <<"S", "c", "o", "r", "e", ":", " ", "4", "2", "\n", "S", "k", "i", "l",
    "l", "s", ":", " ", "a", ",", "b", "\n", "E", "x", "p", "l", "a", "n",
    "a", "t", "i", "o", "n", ":", " ", "o", "k">>
\* "Score: 80-85"
SampleRange ==
  <<"S", "c", "o", "r", "e", ":", " ", "8", "0", "-", "8", "5">>
\* "Score: abc"
SampleMalformed ==
  <<"S", "c", "o", "r", "e", ":", " ", "a", "b", "c">>
\* "Score: 8\nScore: x\nSkills: a\nExplanation: ok"
SampleMalformedThenRest ==
  <<"S", "c", "o", "r", "e", ":", " ", "8", "\n", "S", "c", "o", "r", "e",
    ":", " ", "x", "\n", "S", "k", "i", "l", "l", "s", ":", " ", "a", "\n",
    "E", "x", "p", "l", "a", "n", "a", "t", "i", "o", "n", ":", " ", "o",
    "k">>
\* "Score: 1-2-3"
SampleTwoHyphens ==
  <<"S", "c", "o", "r", "e", ":", " ", "1", "-", "2", "-", "3">>
\* "Score: 150"
SampleAbove ==
  <<"S", "c", "o", "r", "e", ":", " ", "1", "5", "0">>
\* "Score: -5"
SampleMinus ==
  <<"S", "c", "o", "r", "e", ":", " ", "-", "5">>
\* "Skills: a\nSkills: b Skills: c\nExplanation: x Explanation: y"
SampleRepeated ==
  <<"S", "k", "i", "l", "l", "s", ":", " ", "a", "\n", "S", "k", "i", "l",
    "l", "s", ":", " ", "b", " ", "S", "k", "i", "l", "l", "s", ":", " ",
    "c", "\n", "E", "x", "p", "l", "a", "n", "a", "t", "i", "o", "n", ":",
    " ", "x", " ", "E", "x", "p", "l", "a", "n", "a", "t", "i", "o", "n",
    ":", " ", "y">>
SampleResponses ==
  {Sample42,
   SampleRange,
   SampleMalformed,
   SampleMalformedThenRest,
   SampleTwoHyphens,
   SampleAbove,
   SampleMinus,
   SampleRepeated}

MatchOutcomes ==
  {GwText(t) : t \in Texts(MatchFrags, MaxFrags) \cup SampleResponses}
    \cup {GwNone} \cup {GwRaise(m) : m \in GatewayErrors}

\* "India"
India ==
  <<"I", "n", "d", "i", "a">>
\* "Indiana"
Indiana ==
  <<"I", "n", "d", "i", "a", "n", "a">>
\* "I think they are in CHINA"
ThinkChina ==
  <<"I", " ", "t", "h", "i", "n", "k", " ", "t", "h", "e", "y", " ", "a",
    "r", "e", " ", "i", "n", " ", "C", "H", "I", "N", "A">>
\* "China", "CHINA", "India", "null", "NULL", "None", "no location specified",
\* "in", a space and a line break
LocationFrags ==
  {China, <<"C", "H", "I", "N", "A">>, India, Null,
   <<"N", "U", "L", "L">>, <<"N", "o", "n", "e">>, NoLocationSpecified,
   <<"i", "n">>, <<" ">>, <<"\n">>}

LocationOutcomes ==
  {GwText(t) : t \in Texts(LocationFrags, MaxLocFrags) \cup {ThinkChina}}
    \cup {GwNone} \cup {GwRaise(m) : m \in GatewayErrors}

\* known-location lists: the countries of the built-in candidates, and lists
\* in which one name is part of another
CountryLists ==
  {<<>>, <<China>>, <<India, China>>, <<China, India>>,
   <<India, Indiana>>, <<Indiana, India>>,
   <<UnitedStates, UnitedKingdom, China>>}

\* digits, signs, a space, a line break, a point, "about " and " years"
ExperienceFrags ==
  {<<"7">>, <<"1">>, <<"0">>, <<"-">>, <<"+">>, <<" ">>, <<"\n">>, <<".">>,
   <<"a", "b", "o", "u", "t", " ">>,
   <<" ", "y", "e", "a", "r", "s">>}

ExperienceOutcomes ==
  {GwText(t) : t \in Texts(ExperienceFrags, MaxExpFrags)}
    \cup {GwNone} \cup {GwRaise(m) : m \in GatewayErrors}

(***************************************************************************)
(* backend/api.py: response models and handlers.  A handler's result is    *)
(* its HTTP response, the Gateway calls it made in order, the exception    *)
(* that reached its except clause and the DataFrame it loaded.             *)
(***************************************************************************)
\* "MatchResponse"
MatchResponseName ==
  <<"M", "a", "t", "c", "h", "R", "e", "s", "p", "o", "n", "s", "e">>
\* "LocationResponse"
LocationResponseName ==
  <<"L", "o", "c", "a", "t", "i", "o", "n", "R", "e", "s", "p", "o", "n",
    "s", "e">>
\* "SkillsResponse"
SkillsResponseName ==
  <<"S", "k", "i", "l", "l", "s", "R", "e", "s", "p", "o", "n", "s", "e">>
\* "CandidateResponse"
CandidateResponseName ==
  <<"C", "a", "n", "d", "i", "d", "a", "t", "e", "R", "e", "s", "p", "o",
    "n", "s", "e">>
\* "OutreachResponse"
OutreachResponseName ==
  <<"O", "u", "t", "r", "e", "a", "c", "h", "R", "e", "s", "p", "o", "n",
    "s", "e">>
\* str(KeyError('Country'))
\* "'Country'"
KeyErrorCountry ==
  <<"'", "C", "o", "u", "n", "t", "r", "y", "'">>
\* "module 'main' has no attribute 'search_candidates'"
NoSearchCandidates ==
  <<"m", "o", "d", "u", "l", "e", " ", "'", "m", "a", "i", "n", "'", " ",
    "h", "a", "s", " ", "n", "o", " ", "a", "t", "t", "r", "i", "b", "u",
    "t", "e", " ", "'", "s", "e", "a", "r", "c", "h", "_", "c", "a", "n",
    "d", "i", "d", "a", "t", "e", "s", "'">>
\* "Skills extraction failed"
SkillsExtractionFailed ==
  <<"S", "k", "i", "l", "l", "s", " ", "e", "x", "t", "r", "a", "c", "t",
    "i", "o", "n", " ", "f", "a", "i", "l", "e", "d">>
\* "Experience extraction failed"
ExperienceExtractionFailed ==
  <<"E", "x", "p", "e", "r", "i", "e", "n", "c", "e", " ", "e", "x", "t",
    "r", "a", "c", "t", "i", "o", "n", " ", "f", "a", "i", "l", "e", "d">>

(***************************************************************************)
(* repr(value), as the messages of pydantic show an input.                 *)
(***************************************************************************)
\* sep.join(pieces)
JoinWith(sep, pieces) ==
  Join([i \in 1..(2 * Len(pieces) - 1) |->
          IF i % 2 = 1 THEN pieces[(i + 1) \div 2] ELSE sep])

\* str.isprintable() of a character (Unicode 14.0)
IsPrintable(c) ==
  LET n == CodeOf(c)
  IN IF n < 128 THEN n \in 32..126
     ELSE \A i \in 1..Len(NonPrintableRanges) :
            n < NonPrintableRanges[i][1] \/ n > NonPrintableRanges[i][2]

ReprChar(c, quote) ==
  LET n == CodeOf(c)
  IN CASE c \in {quote, "\\"} -> <<"\\", c>>
       [] c = "\t" -> <<"\\", "t">>
       [] c = "\n" -> <<"\\", "n">>
       [] c = "\r" -> <<"\\", "r">>
       [] OTHER ->
            IF IsPrintable(c) THEN <<c>>
            ELSE IF n < 256 THEN <<"\\", "x">> \o HexOf(n, 2, LowerHexDigits)
            ELSE IF n < 65536
              THEN <<"\\", "u">> \o HexOf(n, 4, LowerHexDigits)
            ELSE <<"\\", "U">> \o HexOf(n, 8, LowerHexDigits)

\* repr of a str: in double quotes when it holds a single quote and no
\* double quote
ReprStr(s) ==
  LET has(c) == \E i \in 1..Len(s) : s[i] = c
      quote == IF has("'") /\ ~has("\"") THEN "\"" ELSE "'"
  IN <<quote>> \o Join([i \in 1..Len(s) |-> ReprChar(s[i], quote)])
       \o <<quote>>

ReprInt(v) ==
  (IF (IsBig(v) /\ v.neg) \/ (~IsBig(v) /\ v.int < 0) THEN <<"-">>
   ELSE <<>>)
    \o DigitChars(Magnitude(v))

\* repr of a float: the shortest digits, in positional notation for
\* exponents -4 to 15 and in scientific notation otherwise
ReprFloat(v) ==
  LET n == Len(v.digits)
      sign == IF v.neg THEN <<"-">> ELSE <<>>
      ds == DigitChars(v.digits)
      zeros(k) == [i \in 1..k |-> "0"]
      e == IF v.exp < 0 THEN 0 - v.exp ELSE v.exp
      positional ==
        IF v.exp < 0 THEN <<"0", ".">> \o zeros(e - 1) \o ds
        ELSE IF v.exp >= n - 1
          THEN ds \o zeros(v.exp - (n - 1)) \o <<".", "0">>
        ELSE SubSeq(ds, 1, v.exp + 1) \o <<".">> \o SubSeq(ds, v.exp + 2, n)
      scientific ==
        <<ds[1]>> \o (IF n > 1 THEN <<".">> \o Tail(ds) ELSE <<>>)
          \o <<"e", IF v.exp < 0 THEN "-" ELSE "+">>
          \o (IF e < 10 THEN <<"0">> ELSE <<>>) \o DigitChars(DigitsOfNat(e))
  IN CASE v.kind = "nan" -> Chars("nan")
       [] v.kind = "inf" -> sign \o Chars("inf")
       [] OTHER -> sign \o (IF v.exp \in (0 - 4)..15 THEN positional
                            ELSE scientific)

RECURSIVE Repr(_)
Repr(v) ==
  CASE v.type = "NoneType" -> Chars("None")
    [] v.type = "bool" -> IF v.bool THEN Chars("True") ELSE Chars("False")
    [] v.type = "int" -> ReprInt(v)
    [] v.type = "float" -> ReprFloat(v)
    [] v.type = "str" -> ReprStr(v.str)
    [] v.type = "list" ->
         <<"[">> \o JoinWith(Chars(", "),
                             [i \in 1..Len(v.items) |-> Repr(v.items[i])])
           \o <<"]">>
    [] v.type = "dict" ->
         <<"{">> \o JoinWith(Chars(", "),
                             [i \in 1..Len(v.pairs) |->
                                ReprStr(v.pairs[i][1]) \o Chars(": ")
                                  \o Repr(v.pairs[i][2])])
           \o <<"}">>

(***************************************************************************)
(* pydantic: the validation of the fields of a response model and the      *)
(* text of a ValidationError.                                              *)
(***************************************************************************)
\* the release of pydantic in the URL of an error
PydanticVersion == Chars("2.13")

RECURSIVE Utf8Size(_)
Utf8Size(s) == IF s = <<>> THEN 0 ELSE Utf8Len(Head(s)) + Utf8Size(Tail(s))

\* an input of more than 50 bytes is shown as its first 25 and its last 24
\* bytes, each cut at a character
Truncated(r) ==
  LET n == Len(r)
      head == Max({k \in 0..Min({25, n}) : Utf8Size(SubSeq(r, 1, k)) <= 25})
      tail == Max({k \in 0..Min({24, n}) :
                     Utf8Size(SubSeq(r, n - k + 1, n)) <= 24})
  IN IF n <= 50 /\ Utf8Size(r) <= 50 THEN r
     ELSE SubSeq(r, 1, head) \o Chars("...") \o SubSeq(r, n - tail + 1, n)

ErrorMessage(type) ==
  CASE type = "int_type" -> Chars("Input should be a valid integer")
    [] type = "int_parsing" ->
         Chars("Input should be a valid integer, unable to parse string as an integer")
    [] type = "int_from_float" ->
         Chars("Input should be a valid integer, got a number with a fractional part")
    [] type = "int_parsing_size" ->
         Chars("Unable to parse input string as an integer, exceeded maximum size")
    [] type = "finite_number" -> Chars("Input should be a finite number")
    [] type = "string_type" -> Chars("Input should be a valid string")
    [] type = "string_unicode" ->
         Chars("Input should be a valid string, unable to parse raw data as a unicode string")

Valid(v) == [ok |-> TRUE, val |-> v]
Invalid(type) == [ok |-> FALSE, type |-> type]

\* the JSON grammar of an int, -?(0|[1-9]\d*), on the whole text; a run of
\* more than 4300 characters of sign and digits is out of range
NumberInt(s) ==
  LET neg == At(s, 1) = "-"
      i0 == IF neg THEN 2 ELSE 1
      body == SubSeq(s, i0, Len(s))
      run == SkipIn(s, i0, Digits) - 1
      whole == body # <<>> /\ \A i \in 1..Len(body) : body[i] \in Digits
  IN IF At(s, i0) \in Digits \ {"0"} /\ run > 4300 THEN Invalid("range")
     ELSE IF whole /\ (body[1] # "0" \/ Len(body) = 1)
       THEN Valid(MkInt(neg, DigitValues(body)))
     ELSE Invalid("syntax")

\* the text after its leading zeros (and the underscores among them); a
\* text that starts with neither a digit nor a minus sign is refused
strip_leading_zeros(s) ==
  LET j == SkipIn(s, 2, {"0", "_"})
      NonZero(c) == c \in (Digits \ {"0"}) \cup {"-"}
  IN IF s = <<>> THEN Invalid("syntax")
     ELSE IF NonZero(s[1]) THEN Valid(s)
     ELSE IF s[1] # "0" THEN Invalid("syntax")
     ELSE IF j > Len(s) THEN Valid(<<s[Len(s)]>>)
     ELSE IF NonZero(s[j]) THEN Valid(SubSeq(s, j, Len(s)))
     ELSE IF s[j] = "." THEN Valid(SubSeq(s, j - 1, Len(s)))
     ELSE Invalid("syntax")

\* the text without a decimal point that only zeros follow
strip_decimal_zeros(s) ==
  LET k == Find(s, <<".">>, 1)
  IN IF k > 0 /\ k < Len(s) /\ \A i \in (k + 1)..Len(s) : s[i] = "0"
       THEN SubSeq(s, 1, k - 1)
       ELSE s

\* the text without its underscores, which stand between two other
\* characters
strip_underscores(s) ==
  IF s # <<>> /\ (s[1] = "_" \/ s[Len(s)] = "_"
                    \/ \E i \in 1..(Len(s) - 1) : s[i] = "_" /\ s[i + 1] = "_")
    THEN Invalid("syntax")
    ELSE Valid(SelectSeq(s, LAMBDA c : c # "_"))

\* a text that is not an int as it stands, made ready for a second reading
clean_int_str(str) ==
  LET s0 == StripChars(str, IntWhitespace)
      plus == At(s0, 1) = "+"
      s1 == IF plus THEN Tail(s0) ELSE s0
      neg == At(s1, 1) = "-"
      s2 == IF neg THEN Tail(s1) ELSE s1
      s3 == strip_leading_zeros(s2)
      s4 == strip_underscores(strip_decimal_zeros(s3.val))
      cleaned == (IF neg THEN <<"-">> ELSE <<>>) \o s4.val
  IN IF (plus /\ neg) \/ ~s3.ok \/ ~s4.ok \/ Len(cleaned) = Len(str)
       THEN Invalid("syntax")
       ELSE Valid(cleaned)

str_as_int(str) ==
  LET first == NumberInt(str)
      cleaned == clean_int_str(str)
      second == NumberInt(cleaned.val)
  IN IF first.ok THEN first
     ELSE IF first.type = "range" THEN Invalid("int_parsing_size")
     ELSE IF cleaned.ok /\ second.ok THEN second
     ELSE Invalid("int_parsing")

\* 2^63
TwoTo63 == <<9, 2, 2, 3, 3, 7, 2, 0, 3, 6, 8, 5, 4, 7, 7, 5, 8, 0, 8>>

\* int(v) of a float without fraction, for the floats between -2^63 and 2^63:
\* the digits of a double below 10^15 are those of its shortest numeral, the
\* digits of a larger one are those of m * 2^e
float_as_int(v) ==
  LET n == Len(v.digits)
      whole == v.digits \o Zeros(v.exp - (n - 1))
      Exact(d) == IF d.e > 0 THEN TimesTwoTo(d.m, d.e) ELSE whole
      Sized(ds) ==
        IF Len(ds) > 19 \/ (Len(ds) = 19 /\ ~DigitsLess(ds, TwoTo63))
          THEN Invalid("int_parsing_size")
          ELSE Valid(MkInt(v.neg, ds))
  IN IF v.kind # "finite" THEN Invalid("finite_number")
     ELSE IF v.exp < n - 1 THEN Invalid("int_from_float")
     ELSE IF v.exp > 18 THEN Invalid("int_parsing_size")
     ELSE IF v.exp < 15 THEN Valid(MkInt(v.neg, whole))
     ELSE Sized(Exact(NearestDouble(v.digits, v.exp - (n - 1))))

\* a field of type int
validate_int(v) ==
  CASE v.type = "int" -> Valid(v)
    [] v.type = "bool" -> Valid(PyInt(IF v.bool THEN 1 ELSE 0))
    [] v.type = "float" -> float_as_int(v)
    [] v.type = "str" ->
         IF \E i \in 1..Len(v.str) : IsSurrogate(v.str[i])
           THEN Invalid("string_unicode")
           ELSE str_as_int(v.str)
    [] OTHER -> Invalid("int_type")

\* a field of type str
validate_str(v) == IF v.type = "str" THEN Valid(v) ELSE Invalid("string_type")

\* a field of type Optional[str]
validate_optional_str(v) == IF v = PyNone THEN Valid(v) ELSE validate_str(v)

\* the lines of one invalid field in str(ValidationError)
LineError(field, type, input) ==
  Chars(field) \o <<"\n">> \o Chars("  ") \o ErrorMessage(type)
    \o Chars(" [type=") \o Chars(type) \o Chars(", input_value=")
    \o Truncated(Repr(input)) \o Chars(", input_type=") \o Chars(input.type)
    \o <<"]", "\n">>
    \o Chars("    For further information visit https://errors.pydantic.dev/")
    \o PydanticVersion \o Chars("/v/") \o Chars(type)

\* ValidationError of a model for its invalid fields, in the order of the
\* fields: each is <<field, validation result, input>>
ValidationError(model, fields) ==
  LET bad == SelectSeq(fields, LAMBDA f : ~f[2].ok)
      count == DigitChars(DigitsOfNat(Len(bad)))
  IN Exc("ValidationError",
         count \o Chars(" validation error")
           \o (IF Len(bad) = 1 THEN <<>> ELSE <<"s">>) \o Chars(" for ")
           \o model
           \o Join([i \in 1..Len(bad) |->
                      <<"\n">> \o LineError(bad[i][1], bad[i][2].type,
                                            bad[i][3])]))

AllValid(fields) == \A i \in 1..Len(fields) : fields[i][2].ok

MatchResponse(score, skills, explanation) ==
  LET Model(fields) ==
        IF AllValid(fields)
          THEN [type |-> "MatchResponse", score |-> fields[1][2].val,
                skills |-> skills, explanation |-> explanation]
          ELSE ValidationError(MatchResponseName, fields)
  IN Model(<<<<"score", validate_int(score), score>>,
             <<"skills", validate_str(skills), skills>>,
             <<"explanation", validate_str(explanation), explanation>>>>)

SkillsResponse(skills) ==
  LET Model(fields) ==
        IF AllValid(fields) THEN [type |-> "SkillsResponse", skills |-> skills]
        ELSE ValidationError(SkillsResponseName, fields)
  IN Model(<<<<"skills", validate_str(skills), skills>>>>)

LocationResponse(location) ==
  LET Model(fields) ==
        IF AllValid(fields)
          THEN [type |-> "LocationResponse", location |-> location]
          ELSE ValidationError(LocationResponseName, fields)
  IN Model(<<<<"location", validate_optional_str(location), location>>>>)

\* the fields of the row are texts; score and explanation are the literals
\* 0 and ''
CandidateResponse(row, skills) ==
  LET Model(fields) ==
        IF AllValid(fields)
          THEN [type |-> "CandidateResponse",
                name |-> PyStr(row.Name), phone |-> PyStr(row.Phone),
                country |-> PyStr(row.Country),
                open_to |-> PyStr(row.OpenTo), email |-> PyStr(row.Email),
                resume |-> PyStr(row.Resume), score |-> PyInt(0),
                skills |-> skills, explanation |-> PyStr(<<>>)]
          ELSE ValidationError(CandidateResponseName, fields)
  IN Model(<<<<"skills", validate_str(skills), skills>>>>)

OutreachResponse(generatedMessage) ==
  LET Model(fields) ==
        IF AllValid(fields)
          THEN [type |-> "OutreachResponse",
                generatedMessage |-> generatedMessage]
          ELSE ValidationError(OutreachResponseName, fields)
  IN Model(<<<<"generatedMessage", validate_str(generatedMessage),
               generatedMessage>>>>)

(***************************************************************************)
(* The response to the client.  FastAPI renders what the handler returned  *)
(* or the HTTPException it raised as JSON, encoded as UTF-8, after the     *)
(* handler's try has ended.  A text with a surrogate cannot be encoded:    *)
(* the UnicodeEncodeError of the rendering is caught by no handler and the *)
(* server answers it with its own plain-text response.                     *)
(***************************************************************************)
\* the texts in the body of a response
RECURSIVE BodyTexts(_)
BodyTexts(v) ==
  CASE v.type = "str" -> {v.str}
    [] v.type = "list" -> UNION {BodyTexts(v.items[i]) : i \in 1..Len(v.items)}
    [] v.type = "dict" -> BodyTexts(v.experience)
    [] v.type = "MatchResponse" -> {v.skills.str, v.explanation.str}
    [] v.type = "SkillsResponse" -> {v.skills.str}
    [] v.type = "LocationResponse" -> BodyTexts(v.location)
    [] v.type = "CandidateResponse" ->
         {v.name.str, v.phone.str, v.country.str, v.open_to.str, v.email.str,
          v.resume.str, v.skills.str, v.explanation.str}
    [] v.type = "OutreachResponse" -> {v.generatedMessage.str}
    [] OTHER -> {}

\* json.dumps(content, ensure_ascii=False).encode("utf-8") succeeds
Renders(content) ==
  \A text \in BodyTexts(content) :
    \A i \in 1..Len(text) : ~IsSurrogate(text[i])

\* the answer of the server to an exception that no handler caught: status
\* 500 with the plain text "Internal Server Error" and no detail
InternalServerError ==
  [status |-> 500, text |-> Chars("Internal Server Error")]

\* the response to a value the handler returned
Ok(body) ==
  IF Renders(body) THEN [status |-> 200, body |-> body]
  ELSE InternalServerError

\* the response to raise HTTPException(status_code=500, detail=str(e))
HTTPException(e) ==
  IF Renders(PyStr(e.msg)) THEN [status |-> 500, detail |-> PyStr(e.msg)]
  ELSE InternalServerError

Call(site, g) == [site |-> site, outcome |-> g]
NotLoaded == [type |-> "none"]

\* the try/except of a handler around the outcome of its body, and the
\* response the client gets
Handled(outcome, calls, loaded) ==
  IF IsExc(outcome)
    THEN [response |-> HTTPException(outcome), calls |-> calls,
          raised |-> outcome, loaded |-> loaded]
    ELSE [response |-> Ok(outcome), calls |-> calls,
          raised |-> NoException, loaded |-> loaded]

\* POST /api/match; frames are the frames in use when the server calls the
\* handler
get_candidate_match(module, g, errors, frames) ==
  LET Body(r) == IF IsExc(r) THEN r
                 ELSE MatchResponse(r.score, r.skills, r.explanation)
  IN Handled(Body(main_get_candidate_match_score(module, g, errors,
                                                 frames + 1)),
             <<Call("get_candidate_match_score", g)>>, NotLoaded)

\* GET /api/skills
extract_skills(module, g, errors) ==
  LET Body(skills) == IF IsExc(skills) THEN skills ELSE SkillsResponse(skills)
  IN Handled(Body(main_extract_skills_from_resume(module, g, errors)),
             <<Call("extract_skills_from_resume", g)>>, NotLoaded)

\* the loop of get_candidates over the rows; gs are the outcomes of the
\* Gateway calls, one for each row
RECURSIVE ProcessRows(_, _, _, _, _)
ProcessRows(module, rows, gs, candidates, errors) ==
  IF rows = <<>> THEN PyList(candidates)
  ELSE LET skills == main_extract_skills_from_resume(module, Head(gs), errors)
           candidate == IF IsExc(skills) THEN skills
                        ELSE CandidateResponse(Head(rows), skills)
       IN IF IsExc(candidate) THEN candidate
          ELSE ProcessRows(module, Tail(rows), Tail(gs),
                           Append(candidates, candidate), errors)

\* the Gateway calls made until the loop ends or an exception leaves it
RECURSIVE RowCalls(_, _, _, _)
RowCalls(module, rows, gs, errors) ==
  IF rows = <<>> THEN <<>>
  ELSE LET skills == main_extract_skills_from_resume(module, Head(gs), errors)
       IN <<Call("extract_skills_from_resume", Head(gs))>>
            \o (IF IsExc(skills) \/ IsExc(CandidateResponse(Head(rows), skills))
                  THEN <<>>
                  ELSE RowCalls(module, Tail(rows), Tail(gs), errors))

\* GET /api/candidates
get_candidates(module, file, gs, errors) ==
  LET df == main_load_resumes(module, file) IN
    IF df.rows = <<>>
      THEN Handled(PyList(<<>>), <<>>, df)
      ELSE Handled(ProcessRows(module, df.rows, gs, <<>>, errors),
                   RowCalls(module, df.rows, gs, errors), df)

\* Series.unique(): the values in the order of their first occurrence
RECURSIVE Unique(_, _)
Unique(values, seen) ==
  IF values = <<>> THEN seen
  ELSE IF \E i \in 1..Len(seen) : seen[i] = Head(values)
    THEN Unique(Tail(values), seen)
  ELSE Unique(Tail(values), Append(seen, Head(values)))

\* df['Country'].dropna().unique().tolist()
CountryList(df) == Unique([i \in 1..Len(df.rows) |-> df.rows[i].Country], <<>>)

\* GET /api/location
extract_location(module, file, g, errors) ==
  LET df == main_load_resumes(module, file)
      location == main_extract_location_from_query(module, g, CountryList(df),
                                                   errors)
  IN IF "Country" \notin df.columns
       THEN Handled(Exc("KeyError", KeyErrorCountry), <<>>, df)
       ELSE Handled(IF IsExc(location) THEN location
                    ELSE LocationResponse(location),
                    <<Call("extract_location_from_query", g)>>, df)

\* GET /api/experience
api_get_experience_years(module, g, errors) ==
  LET years == main_get_experience_years(module, g, errors)
      body == IF IsExc(years) THEN years
              ELSE [type |-> "dict", experience |-> years]
  IN Handled(body, <<Call("get_experience_years", g)>>, NotLoaded)

\* POST /search: main.search_candidates is looked up in the module
search_candidates(module) ==
  IF "search_candidates" \in Functions(module)
    THEN Handled(PyList(<<>>), <<>>, NotLoaded)
    ELSE Handled(Exc("AttributeError", NoSearchCandidates), <<>>, NotLoaded)

\* POST /api/outreach: g1, g2 and g3 are the outcomes of the Gateway calls of
\* the skills sub-call, the experience sub-call and the generation call
generate_outreach(module, g1, g2, g3, errors) ==
  LET s1 == main_extract_skills_from_resume(module, g1, errors)
      skills == IF IsExc(s1) THEN PyStr(SkillsExtractionFailed) ELSE s1
      e1 == main_get_experience_years(module, g2, errors)
      experience_years ==
        IF IsExc(e1) THEN PyStr(ExperienceExtractionFailed) ELSE e1
      generated_message ==
        CASE g3.kind = "text" -> PyStr(g3.text)
          [] g3.kind = "none" -> PyNone
          [] g3.kind = "raise" -> GatewayError(g3)
      body == IF IsExc(generated_message) THEN generated_message
              ELSE OutreachResponse(generated_message)
  IN Handled(body,
             <<Call("extract_skills_from_resume", g1),
               Call("get_experience_years", g2),
               [site |-> "generate_outreach", outcome |-> g3,
                skills |-> skills, experience_years |-> experience_years]>>,
             NotLoaded)

(***************************************************************************)
(* Data files and Gateway outcomes of the HTTP service                     *)
(***************************************************************************)
File(rows) == [readable |-> TRUE, rows |-> rows]
Missing == [readable |-> FALSE, rows |-> <<>>]

\* rows of a data file: Ana and Bo of India, Cy of China
RowAna ==
  Row(<<"A", "n", "a">>,
      <<"+", "1", "-", "5", "5", "5">>,
      India,
      <<"F", "u", "l", "l", "-", "t", "i", "m", "e">>,
      <<"a", "@", "b", ".", "c">>,
      <<"5", " ", "y", "e", "a", "r", "s", " ", "o", "f", " ", "P", "y", "t",
        "h", "o", "n">>)
RowBo ==
  Row(<<"B", "o">>,
      <<"+", "1", "-", "5", "5", "5">>,
      India,
      <<"F", "u", "l", "l", "-", "t", "i", "m", "e">>,
      <<"a", "@", "b", ".", "c">>,
      <<"5", " ", "y", "e", "a", "r", "s", " ", "o", "f", " ", "P", "y", "t",
        "h", "o", "n">>)
RowCy ==
  Row(<<"C", "y">>,
      <<"+", "1", "-", "5", "5", "5">>,
      China,
      <<"F", "u", "l", "l", "-", "t", "i", "m", "e">>,
      <<"a", "@", "b", ".", "c">>,
      <<"5", " ", "y", "e", "a", "r", "s", " ", "o", "f", " ", "P", "y", "t",
        "h", "o", "n">>)

DataFiles == {Missing, File(<<>>), File(<<RowAna>>), File(<<RowAna, RowBo, RowCy>>)}

Failures ==
  {GwNone, GwRaise(ConnectionError), GwRaise(BadSurrogate),
   GwRaise(EscapedByte)}

\* the frames in use when the server calls a handler: those of the event
\* loop and of the middleware of the server the service runs under.  24 and
\* 26 are the depths of the application called from a coroutine that
\* asyncio.run drives, at the top level of a script and inside a function
\* of it; another server has another depth.
ServerFrames == {24, 26}

\* " Python, SQL\n"
PythonSql ==
  <<" ", "P", "y", "t", "h", "o", "n", ",", " ", "S", "Q", "L", "\n">>
\* "7"
Seven ==
  <<"7">>
\* "about 7 years"
AboutSeven ==
  <<"a", "b", "o", "u", "t", " ", "7", " ", "y", "e", "a", "r", "s">>
\* "Dear Ana,\n"
DearAna ==
  <<"D", "e", "a", "r", " ", "A", "n", "a", ",", "\n">>
\* "Hi " and the first half of a surrogate pair
HiHalf ==
  <<"H", "i", " ", "U+D83D">>
MatchHttpOutcomes ==
  {GwText(t) : t \in SampleResponses \cup JsonTexts} \cup Failures
SkillsHttpOutcomes == {GwText(PythonSql)} \cup Failures
LocationHttpOutcomes ==
  {GwText(t) : t \in {Null, China, India, ThinkChina, Indiana}} \cup Failures
ExperienceHttpOutcomes == {GwText(Seven), GwText(AboutSeven)} \cup Failures
GenerationOutcomes == {GwText(DearAna), GwText(HiHalf)} \cup Failures

(***************************************************************************)
(* State                                                                   *)
(***************************************************************************)
VARIABLES
  gw,          \* the outcome of the Gateway call of the function under check
  fn,          \* the function that was applied, "none" before the call
  ret,         \* the value it returned
  known,       \* the country_list passed to extract_location_from_query
  mainModule,  \* the module that `import main` of backend/api.py bound
  dataFile,    \* Data/small_CV_DB.csv
  endpoint,    \* the endpoint of the last request, "none" before the first
  response,    \* its HTTP response
  calls,       \* the Gateway calls its handler made, in order
  raised,      \* the exception that reached the handler's except clause
  loaded,      \* the DataFrame load_resumes returned to the handler
  stdout       \* the error handler of sys.stdout

fnVars == <<gw, fn, ret, known>>
httpVars == <<mainModule, dataFile, endpoint, response, calls, raised, loaded>>
vars == <<fnVars, httpVars, stdout>>

NoResponse == [status |-> 0]

\* the HTTP service has served no request
HttpIdle ==
  /\ mainModule = "main.py"
  /\ dataFile = Missing
  /\ endpoint = "none"
  /\ response = NoResponse
  /\ calls = <<>>
  /\ raised = NoException
  /\ loaded = NotLoaded

Unset == [type |-> "unset"]

(***************************************************************************)
(* SpecMatch: get_candidate_match_score of main.py on every Gateway        *)
(* outcome.                                                                *)
(***************************************************************************)
InitMatch ==
  /\ gw \in MatchOutcomes
  /\ fn = "none"
  /\ ret = Unset
  /\ known = <<>>
  /\ stdout \in StdoutErrors
  /\ HttpIdle

CallMatch ==
  /\ fn = "none"
  /\ fn' = "get_candidate_match_score"
  /\ ret' = get_candidate_match_score(gw, stdout)
  /\ UNCHANGED <<gw, known, httpVars, stdout>>

NextMatch == CallMatch

SpecMatch == InitMatch /\ [][NextMatch]_vars

(***************************************************************************)
(* SpecLocation: extract_location_from_query of main.py and of             *)
(* backend/main.py on every Gateway outcome and known-location list.       *)
(***************************************************************************)
InitLocation ==
  /\ gw \in LocationOutcomes
  /\ known \in CountryLists
  /\ fn = "none"
  /\ ret = Unset
  /\ stdout \in StdoutErrors
  /\ HttpIdle

CallLocation ==
  /\ fn = "none"
  /\ fn' = "extract_location_from_query"
  /\ ret' = extract_location_from_query(gw, known, stdout)
  /\ UNCHANGED <<gw, known, httpVars, stdout>>

CallBackendLocation ==
  /\ fn = "none"
  /\ fn' = "backend.extract_location_from_query"
  /\ ret' = backend_extract_location_from_query(gw, known, stdout)
  /\ UNCHANGED <<gw, known, httpVars, stdout>>

NextLocation == CallLocation \/ CallBackendLocation

SpecLocation == InitLocation /\ [][NextLocation]_vars

(***************************************************************************)
(* SpecExperience: get_experience_years of main.py and of backend/main.py  *)
(* on every Gateway outcome.                                               *)
(***************************************************************************)
InitExperience ==
  /\ gw \in ExperienceOutcomes
  /\ known = <<>>
  /\ fn = "none"
  /\ ret = Unset
  /\ stdout \in StdoutErrors
  /\ HttpIdle

CallExperience ==
  /\ fn = "none"
  /\ fn' = "get_experience_years"
  /\ ret' = get_experience_years(gw, stdout)
  /\ UNCHANGED <<gw, known, httpVars, stdout>>

CallBackendExperience ==
  /\ fn = "none"
  /\ fn' = "backend.get_experience_years"
  /\ ret' = backend_get_experience_years(gw, stdout)
  /\ UNCHANGED <<gw, known, httpVars, stdout>>

NextExperience == CallExperience \/ CallBackendExperience

SpecExperience == InitExperience /\ [][NextExperience]_vars

(***************************************************************************)
(* Spec: the HTTP service of backend/api.py.  It serves one request after  *)
(* another: a handler never awaits, so that the event loop runs it to its  *)
(* end, and the response is delivered before the next request is served.   *)
(* Every Gateway call of a request has its own outcome.                    *)
(***************************************************************************)
Init ==
  /\ mainModule \in Modules
  /\ dataFile \in DataFiles
  /\ endpoint = "none"
  /\ response = NoResponse
  /\ calls = <<>>
  /\ raised = NoException
  /\ loaded = NotLoaded
  /\ gw = GwNone
  /\ fn = "none"
  /\ ret = Unset
  /\ known = <<>>
  /\ stdout \in StdoutErrors

\* the service answers a request to an endpoint with what its handler did
Serve(path, result) ==
  /\ endpoint = "none"
  /\ endpoint' = path
  /\ response' = result.response
  /\ calls' = result.calls
  /\ raised' = result.raised
  /\ loaded' = result.loaded
  /\ UNCHANGED <<mainModule, dataFile, fnVars, stdout>>

PostMatch ==
  \E g \in MatchHttpOutcomes, frames \in ServerFrames :
    Serve("/api/match", get_candidate_match(mainModule, g, stdout, frames))

GetSkills ==
  \E g \in SkillsHttpOutcomes :
    Serve("/api/skills", extract_skills(mainModule, g, stdout))

GetCandidates ==
  \E gs \in [1..Len(main_load_resumes(mainModule, dataFile).rows)
               -> SkillsHttpOutcomes] :
    Serve("/api/candidates", get_candidates(mainModule, dataFile, gs, stdout))

GetLocation ==
  \E g \in LocationHttpOutcomes :
    Serve("/api/location", extract_location(mainModule, dataFile, g, stdout))

GetExperience ==
  \E g \in ExperienceHttpOutcomes :
    Serve("/api/experience", api_get_experience_years(mainModule, g, stdout))

PostSearch == Serve("/search", search_candidates(mainModule))

PostOutreach ==
  \E g1 \in SkillsHttpOutcomes, g2 \in ExperienceHttpOutcomes,
     g3 \in GenerationOutcomes :
    Serve("/api/outreach",
          generate_outreach(mainModule, g1, g2, g3, stdout))

\* the response is delivered and the service waits for the next request
Deliver ==
  /\ endpoint # "none"
  /\ endpoint' = "none"
  /\ response' = NoResponse
  /\ calls' = <<>>
  /\ raised' = NoException
  /\ loaded' = NotLoaded
  /\ UNCHANGED <<mainModule, dataFile, fnVars, stdout>>

Next ==
  \/ PostMatch
  \/ GetSkills
  \/ GetCandidates
  \/ GetLocation
  \/ GetExperience
  \/ PostSearch
  \/ PostOutreach
  \/ Deliver

Spec == Init /\ [][Next]_vars

(***************************************************************************)
(* Properties of get_candidate_match_score (SpecMatch)                     *)
(***************************************************************************)
Returned == fn = "get_candidate_match_score"
Lines == SplitLines(gw.text)

\* the text of a line after a prefix it starts with
After(line, prefix) == SubSeq(line, Len(prefix) + 1, Len(line))

\* the prefix occurs in the line at its start only
OnlyAtStart(line, prefix) ==
  StartsWith(line, prefix) /\ Find(line, prefix, 2) = 0

\* line i is the last line that starts with the prefix
LastWith(i, prefix) ==
  /\ StartsWith(Lines[i], prefix)
  /\ \A k \in (i + 1)..Len(Lines) : ~StartsWith(Lines[k], prefix)

\* a decimal numeral as int() reads it
IsNumeral(t) == ~ParseInt(t).err
NumeralValue(t) == ParseInt(t).val
\* a numeral whose value has at most nine digits
UpToNine(t) == ~IsBig(NumeralValue(t))

\* the first and the second hyphen-separated part of a text with a hyphen
FirstPart(t) == SubSeq(t, 1, Find(t, Hyphen, 1) - 1)
SecondPart(t) ==
  LET i == Find(t, Hyphen, 1)
      j == Find(t, Hyphen, i + 1)
  IN SubSeq(t, i + 1, IF j = 0 THEN Len(t) ELSE j - 1)

\* the score text of a Score: line is one int() reads, or a range of two
Parsable(t) ==
  IF Contains(t, Hyphen)
    THEN IsNumeral(FirstPart(t)) /\ IsNumeral(SecondPart(t))
    ELSE IsNumeral(t)

\* C1: for every Gateway outcome the score returned by
\* get_candidate_match_score is an integer in 0..100.
C1_ScoreInRange ==
  Returned =>
    IsInt(ret.score) /\ ~IsBig(ret.score) /\ ret.score.int \in 0..100

\* C2: get_candidate_match_score returns a (score, skills, explanation)
\* triple for every Gateway outcome; when the last Score: line cannot be
\* parsed the score is 0 and the last Skills: and Explanation: lines after
\* it are still applied; a Gateway failure gives (0, "", error message).
C2_NeverRaises ==
  Returned =>
    /\ ret.type = "tuple"
    /\ IsInt(ret.score) /\ IsStr(ret.skills) /\ IsStr(ret.explanation)
    /\ gw.kind = "raise" =>
         /\ ret.score = PyInt(0)
         /\ ret.skills = PyStr(<<>>)
         /\ ret.explanation = PyStr(ErrorInLLM \o gw.msg)
    /\ gw.kind = "text" =>
         \A i \in 1..Len(Lines) :
           (OnlyAtStart(Lines[i], ScorePrefix)
              /\ ~Parsable(Strip(After(Lines[i], ScorePrefix)))) =>
             /\ LastWith(i, ScorePrefix) => ret.score = PyInt(0)
             /\ \A j \in (i + 1)..Len(Lines) :
                  /\ (LastWith(j, SkillsPrefix)
                        /\ OnlyAtStart(Lines[j], SkillsPrefix)) =>
                       ret.skills = PyStr(Strip(After(Lines[j], SkillsPrefix)))
                  /\ (LastWith(j, ExplanationPrefix)
                        /\ OnlyAtStart(Lines[j], ExplanationPrefix)) =>
                       ret.explanation =
                         PyStr(Strip(After(Lines[j], ExplanationPrefix)))

\* C3: the score of the last Score: line is the floor of the average of the
\* two integers around the hyphen when its text has a hyphen, and the
\* integer value of the text when it has none.
C3_RangeAverage ==
  (Returned /\ gw.kind = "text") =>
    \A i \in 1..Len(Lines) :
      (LastWith(i, ScorePrefix) /\ OnlyAtStart(Lines[i], ScorePrefix)) =>
        LET t == Strip(After(Lines[i], ScorePrefix)) IN
          /\ (Contains(t, Hyphen) /\ Parsable(t)
                /\ UpToNine(FirstPart(t)) /\ UpToNine(SecondPart(t))) =>
               /\ 2 * ret.score.int
                    <= NumeralValue(FirstPart(t)).int
                         + NumeralValue(SecondPart(t)).int
               /\ 2 * ret.score.int + 1
                    >= NumeralValue(FirstPart(t)).int
                         + NumeralValue(SecondPart(t)).int
          /\ (~Contains(t, Hyphen) /\ Parsable(t)) =>
               ret.score = NumeralValue(t)

\* C3 witness: "Score: 80-85" gives 82.
C3_Witness ==
  /\ Returned
  /\ gw = GwText(SampleRange)
  /\ ret.score = PyInt(82)

\* C4: no field of the result is null, and a field whose directive line
\* never occurs has its default: score 0, skills "", explanation
\* "Unable to extract information".
C4_Defaults ==
  (Returned /\ gw.kind = "text") =>
    /\ IsInt(ret.score) /\ IsStr(ret.skills) /\ IsStr(ret.explanation)
    /\ (\A i \in 1..Len(Lines) : ~StartsWith(Lines[i], ScorePrefix)) =>
         ret.score = PyInt(0)
    /\ (\A i \in 1..Len(Lines) : ~StartsWith(Lines[i], SkillsPrefix)) =>
         ret.skills = PyStr(<<>>)
    /\ (\A i \in 1..Len(Lines) : ~StartsWith(Lines[i], ExplanationPrefix)) =>
         ret.explanation = PyStr(UnableToExtract)

\* C4 witness: the empty response gives exactly the three defaults.
C4_Witness ==
  /\ Returned
  /\ gw = GwText(<<>>)
  /\ ret = MatchResult(PyInt(0), PyStr(<<>>), PyStr(UnableToExtract))

(***************************************************************************)
(* Properties of extract_location_from_query (SpecLocation)                *)
(***************************************************************************)
LocationReturned ==
  fn \in {"extract_location_from_query", "backend.extract_location_from_query"}

\* the lower-cased trimmed response
Reply == Strip(Lower(Strip(gw.text)))
NoLocationReply == Reply \in {Null, NoneWord, NoLocationSpecified}
Matches(i) == Contains(Reply, Lower(known[i]))

\* what C5 says extract_location_from_query returns
LocationAsSpecified ==
  /\ gw.kind # "text" => ret = PyNone
  /\ (gw.kind = "text" /\ NoLocationReply) => ret = PyNone
  /\ (gw.kind = "text" /\ ~NoLocationReply) =>
       /\ (\A i \in 1..Len(known) : ~Matches(i)) => ret = PyNone
       /\ \A i \in 1..Len(known) :
            (Matches(i) /\ \A k \in 1..(i - 1) : ~Matches(k)) =>
              ret = PyStr(known[i])
  /\ ret = PyNone \/ \E i \in 1..Len(known) : ret = PyStr(known[i])

\* C5: extract_location_from_query returns no location for "null", "none"
\* and "no location specified" (any case), otherwise the first known
\* location whose lower-cased name is in the lower-cased response, and no
\* location when none matches or the Gateway fails; the result is absent or
\* a member of the known list.
C5_Location == LocationReturned => LocationAsSpecified

\* the Gateway failed with a message that print() cannot write
PrintFails == gw.kind = "raise" /\ Unprintable(gw.msg, stdout)

\* the same of the function of main.py alone, when the message of a Gateway
\* failure can be printed
LocationOfMain ==
  (fn = "extract_location_from_query" /\ ~PrintFails) => LocationAsSpecified

(***************************************************************************)
(* Properties of get_experience_years (SpecExperience)                     *)
(***************************************************************************)
ExperienceReturned ==
  fn \in {"get_experience_years", "backend.get_experience_years"}

ExperienceAsSpecified ==
  /\ IsInt(ret)
  /\ gw.kind # "text" => ret = PyInt(0)
  /\ gw.kind = "text" =>
       IF IsNumeral(Strip(gw.text))
         THEN ret = NumeralValue(Strip(gw.text))
         ELSE ret = PyInt(0)

\* C9: get_experience_years returns the integer value of the trimmed
\* response when all of it parses as an integer and 0 otherwise, also for a
\* Gateway failure; the value is always an integer.
C9_Experience == ExperienceReturned => ExperienceAsSpecified

\* the same of the function of main.py alone, when the message of a Gateway
\* failure can be printed
ExperienceOfMain ==
  (fn = "get_experience_years" /\ ~PrintFails) => ExperienceAsSpecified

(***************************************************************************)
(* Properties of the HTTP service (Spec)                                   *)
(***************************************************************************)
Responded == endpoint # "none"

\* the uniform error response for an exception with message msg
UniformError(msg) == [status |-> 500, detail |-> PyStr(msg)]

\* a Gateway call of the request failed at site
FailedAt(i) == calls[i].outcome.kind = "raise"

\* str(e) of the ValidationError of OutreachResponse(generatedMessage=None)
NoneMessageError ==
  Chars("1 validation error for OutreachResponse") \o <<"\n">>
    \o Chars("generatedMessage") \o <<"\n">>
    \o Chars("  Input should be a valid string [type=string_type, input_value=None, input_type=NoneType]")
    \o <<"\n">>
    \o Chars("    For further information visit https://errors.pydantic.dev/2.13/v/string_type")

\* C6: at every endpoint an exception raised while the handler runs ends the
\* request with the uniform error response: status 500 and the exception's
\* message as detail.
C6_UniformError ==
  Responded =>
    /\ raised # NoException => response = UniformError(raised.msg)
    /\ (endpoint = "/api/outreach" /\ FailedAt(3)) =>
         response = UniformError(calls[3].outcome.msg)
    /\ (endpoint = "/api/outreach" /\ calls[3].outcome.kind = "none") =>
         response = UniformError(NoneMessageError)
    /\ (endpoint = "/api/location" /\ "Country" \notin loaded.columns) =>
         response = UniformError(KeyErrorCountry)
    /\ endpoint = "/search" => response = UniformError(NoSearchCandidates)

\* a text without surrogates
Plain(text) == \A i \in 1..Len(text) : ~IsSurrogate(text[i])

\* no text that the Gateway gave or raised in the request holds a surrogate
AllPlain ==
  \A i \in 1..Len(calls) :
    /\ FailedAt(i) => Plain(calls[i].outcome.msg)
    /\ calls[i].outcome.kind = "text" => Plain(calls[i].outcome.text)

\* what the service does with an exception in a handler: the response is
\* 500 with the exception's message as detail when the message holds no
\* surrogate, and the server's plain-text 500 without detail when it holds
\* one; a request without exception ends with 200 when no text of the
\* Gateway holds a surrogate; the plain-text 500 is the answer only to a
\* request in which the Gateway gave or raised a text with a surrogate.
ErrorsThatRender ==
  Responded =>
    /\ (raised # NoException /\ Plain(raised.msg)) =>
         response = UniformError(raised.msg)
    /\ (raised # NoException /\ ~Plain(raised.msg)) =>
         response = InternalServerError
    /\ (raised = NoException /\ AllPlain) => response.status = 200
    /\ response = InternalServerError => ~AllPlain
    /\ (endpoint = "/api/outreach" /\ FailedAt(3)
          /\ Plain(calls[3].outcome.msg)) =>
         response = UniformError(calls[3].outcome.msg)
    /\ (endpoint = "/api/outreach" /\ calls[3].outcome.kind = "none") =>
         response = UniformError(NoneMessageError)
    /\ (endpoint = "/api/location" /\ "Country" \notin loaded.columns) =>
         response = UniformError(KeyErrorCountry)
    /\ endpoint = "/search" => response = UniformError(NoSearchCandidates)

\* C7: the error response never comes from a failure of the Gateway: every
\* request in which a Gateway call failed ends with its success response.
C7_GatewayNeverReaches ==
  Responded =>
    /\ response.status = 500 =>
         ~(IsExc(raised) /\ raised.class = "GatewayError")
    /\ (\E i \in 1..Len(calls) : FailedAt(i)) => response.status = 200

\* what the service does with a Gateway failure whose message holds no
\* surrogate: one inside a function of the main module gives a typed
\* default and does not end the request; a GatewayError ends a request only
\* in /api/outreach, when the generation call made by the handler itself
\* fails.
GatewayFailures ==
  Responded =>
    /\ (IsExc(raised) /\ raised.class = "GatewayError") =>
         /\ response.status = 500
         /\ endpoint = "/api/outreach"
         /\ calls[3].site = "generate_outreach"
         /\ calls[3].outcome = GwRaise(raised.msg)
    /\ \A i \in 1..Len(calls) :
         (FailedAt(i) /\ calls[i].site # "generate_outreach" /\ AllPlain) =>
           /\ endpoint # "/api/outreach" => response.status = 200
           /\ endpoint = "/api/match" =>
                /\ response.body.score = PyInt(0)
                /\ response.body.skills = PyStr(<<>>)
                /\ IsStr(response.body.explanation)
           /\ endpoint = "/api/skills" =>
                response.body.skills
                  \in {PyStr(<<>>),
                       PyStr(ErrorExtractingSkills \o calls[i].outcome.msg)}
           /\ endpoint = "/api/candidates" =>
                response.body.items[i].skills
                  \in {PyStr(<<>>),
                       PyStr(ErrorExtractingSkills \o calls[i].outcome.msg)}
           /\ endpoint = "/api/location" => response.body.location = PyNone
           /\ endpoint = "/api/experience" =>
                response.body.experience \in {PyInt(0), PyStr(<<"0">>)}
           /\ (endpoint = "/api/outreach" /\ i = 1) =>
                calls[3].skills
                  \in {PyStr(<<>>),
                       PyStr(ErrorExtractingSkills \o calls[i].outcome.msg)}
           /\ (endpoint = "/api/outreach" /\ i = 2) =>
                calls[3].experience_years \in {PyInt(0), PyStr(<<"0">>)}

\* C8: when the data file cannot be read, load_resumes returns the three
\* built-in sample candidates and /api/candidates and /api/location work on
\* them.
C8_Fallback ==
  (Responded /\ endpoint \in {"/api/candidates", "/api/location"}
     /\ ~dataFile.readable) =>
    /\ loaded.rows = SAMPLE_CANDIDATES
    /\ response.status = 200
    /\ endpoint = "/api/candidates" => Len(response.body.items) = 3

\* C10: POST /search returns what main.search_candidates produces, and the
\* error response comes only from that routine raising.
C10_SearchDelegates ==
  (Responded /\ endpoint = "/search") =>
    \/ response.status = 200
    \/ "search_candidates" \in Functions(mainModule)

(***************************************************************************)
(* Repeated prefixes in a response (SpecMatch)                             *)
(***************************************************************************)
\* the text of a line after the prefix it starts with, up to the next
\* occurrence of that prefix in the line
UpToNext(line, prefix) ==
  LET rest == After(line, prefix)
      k == Find(rest, prefix, 1)
  IN IF k = 0 THEN rest ELSE SubSeq(rest, 1, k - 1)

\* C11: after parsing a response, skills is the whole stripped text after
\* Skills: on the last line that starts with Skills:, untruncated even when
\* that text contains Skills: again; likewise explanation with Explanation:.
C11_VerbatimLast ==
  (Returned /\ gw.kind = "text") =>
    \A i \in 1..Len(Lines) :
      /\ LastWith(i, SkillsPrefix) =>
           ret.skills = PyStr(Strip(After(Lines[i], SkillsPrefix)))
      /\ LastWith(i, ExplanationPrefix) =>
           ret.explanation = PyStr(Strip(After(Lines[i], ExplanationPrefix)))

\* what the parser does: the last line with the prefix wins, and the
\* value is the stripped text between the prefix and its next occurrence.
LastUpToNext ==
  (Returned /\ gw.kind = "text") =>
    \A i \in 1..Len(Lines) :
      /\ LastWith(i, SkillsPrefix) =>
           ret.skills = PyStr(Strip(UpToNext(Lines[i], SkillsPrefix)))
      /\ LastWith(i, ExplanationPrefix) =>
           ret.explanation = PyStr(Strip(UpToNext(Lines[i], ExplanationPrefix)))

(***************************************************************************)
(* The sub-calls of POST /api/outreach (Spec)                              *)
(***************************************************************************)
\* the handler made the skills sub-call, the experience sub-call and the
\* generation call, in that order
OutreachOrder ==
  /\ Len(calls) = 3
  /\ calls[1].site = "extract_skills_from_resume"
  /\ calls[2].site = "get_experience_years"
  /\ calls[3].site = "generate_outreach"

\* C12: in POST /api/outreach the calls are the skills sub-call, the
\* experience sub-call and the generation call, in that order; a Gateway
\* failure in a sub-call never aborts the request, the generation call is
\* still issued, and the failed sub-call's value in the prompt is the fixed
\* string "Skills extraction failed" / "Experience extraction failed".
C12_SubcallFallbacks ==
  (Responded /\ endpoint = "/api/outreach") =>
    /\ OutreachOrder
    /\ FailedAt(1) => calls[3].skills = PyStr(SkillsExtractionFailed)
    /\ FailedAt(2) =>
         calls[3].experience_years = PyStr(ExperienceExtractionFailed)

\* what the handler does: the order holds and the generation call is issued
\* whatever the sub-calls did; the value of a failed sub-call in the prompt
\* is the default of the main module's function, and the handler's fixed
\* string only when that function could not print the failure's message;
\* the request ends with 200 when the generation call answers a text
\* without surrogates.
OrderAndDefaults ==
  (Responded /\ endpoint = "/api/outreach") =>
    /\ OutreachOrder
    /\ FailedAt(1) =>
         calls[3].skills =
           IF mainModule = "main.py"
             THEN PyStr(ErrorExtractingSkills \o calls[1].outcome.msg)
           ELSE IF Unprintable(calls[1].outcome.msg, stdout)
             THEN PyStr(SkillsExtractionFailed)
           ELSE PyStr(<<>>)
    /\ FailedAt(2) =>
         calls[3].experience_years =
           IF Unprintable(calls[2].outcome.msg, stdout)
             THEN PyStr(ExperienceExtractionFailed)
           ELSE IF mainModule = "main.py" THEN PyInt(0)
           ELSE PyStr(<<"0">>)
    /\ (calls[3].outcome.kind = "text" /\ Plain(calls[3].outcome.text)) =>
         response.status = 200

====
